---- MODULE Spec2Model ----
(***************************************************************************)
(* Plan/orchestration loop of the threads multi-agent workflow.            *)
(*                                                                         *)
(* One run of WorkflowRunner.run: the compiled graph                       *)
(*   planning -> orchestrator -> {web_search | threads -> orchestrator}*   *)
(*            -> response -> END                                           *)
(* advances one node per superstep, threading one AgentState through the   *)
(* nodes, under the recursion limit max_iterations.                        *)
(*                                                                         *)
(* Python values: None is the string "None" for optional scalars and the   *)
(* record NoneRec for optional records; a dict is a function whose DOMAIN  *)
(* is its key set; a list is a sequence (index i in Python is i+1 here).   *)
(* Texts are strings; Words(t) gives the words of a text so that substring *)
(* tests on texts can be computed.                                         *)
(***************************************************************************)
EXTENDS Integers, Sequences, FiniteSets, TLC

VARIABLES
    state,          \* the AgentState flowing through the graph
    node,           \* the node the graph runs next
    step,           \* supersteps taken so far
    status,         \* "running", "done", "aborted" (recursion limit), "failed"
    executed,       \* the nodes executed so far, in order
    exc,            \* the exception that ended the run, if any
    last_decision,  \* what the orchestrator's latest LLM response was read as
    calls,          \* LLM, search and tool calls issued by the latest node execution
    mode,           \* "run" (WorkflowRunner.run) or "stream" (WorkflowRunner.stream)
    events,         \* the events WorkflowRunner.stream has yielded so far
    sse,            \* the SSE events generate_sse_events has yielded so far
    runs,           \* concurrent runs sharing one runner: state, node, step, ... of each
    threads_agent,  \* the shared ThreadsAgent: _tools_loaded, mcp_client._tools, fetches made
    heap,           \* the list objects the runs' threads_results refer to
    alone           \* each concurrent run executed alone on the same outcomes

vars == <<state, node, step, status, executed, exc, last_decision, calls,
          mode, events, sse, runs, threads_agent, heap, alone>>

\* the variables of concurrent runs
conc_vars == <<runs, threads_agent, heap, alone>>

\* the variables of the single run
run_vars == <<state, node, step, status, executed, exc, last_decision, calls,
              mode, events, sse>>

\* the variables of the streaming side
stream_vars == <<mode, events, sse>>

(***************************************************************************)
(* Bounds of the model                                                     *)
(***************************************************************************)
\* recursion limit handed to the graph (WorkflowRunner(max_iterations=...))
MaxIterations == 7

\* longest plan the model lets the LLMs build
MaxPlanLen == 3

\* most modifications in one orchestrator decision
MaxMods == 2

None == "None"
NoneRec == [isNone |-> TRUE]
END == "__end__"
START == "__start__"

(***************************************************************************)
(* Python helpers                                                          *)
(***************************************************************************)
\* dict.get(key, default)
Get(d, key, default) == IF key \in DOMAIN d THEN d[key] ELSE default

\* list.insert that loses the elements after the insertion point
ListInsertTruncating(s, i, x) == SubSeq(s, 1, i) \o <<x>>

\* list.insert(i, x) with 0 <= i <= len(list)
ListInsert(s, i, x) == SubSeq(s, 1, i) \o <<x>> \o SubSeq(s, i + 1, Len(s))

\* the words of the texts the model uses (str.split of each text)
Words(t) ==
    CASE t = "" -> <<>>
      [] t = "Search for X with different keywords"
           -> <<"Search", "for", "X", "with", "different", "keywords">>
      [] t = "Post the summary" -> <<"Post", "the", "summary">>
      [] t = "Inform the User of the failure"
           -> <<"Inform", "the", "User", "of", "the", "failure">>
      [] t = "please NOTIFY THE USER" -> <<"please", "NOTIFY", "THE", "USER">>
      [] t = "explain to them" -> <<"explain", "to", "them">>
      [] t = "Tell the user why" -> <<"Tell", "the", "user", "why">>
      [] t = "Find news" -> <<"Find", "news">>
      [] t = "Share a post" -> <<"Share", "a", "post">>
      [] t = "Hello there" -> <<"Hello", "there">>
      [] t = "Find and share news" -> <<"Find", "and", "share", "news">>
      [] t = "Search for AI news" -> <<"Search", "for", "AI", "news">>
      [] OTHER -> <<t>>

\* str.lower on one word
LowerWord(w) ==
    CASE w = "Inform" -> "inform"
      [] w = "User" -> "user"
      [] w = "NOTIFY" -> "notify"
      [] w = "THE" -> "the"
      [] w = "USER" -> "user"
      [] w = "Tell" -> "tell"
      [] w = "Search" -> "search"
      [] w = "Post" -> "post"
      [] w = "Find" -> "find"
      [] w = "Share" -> "share"
      [] w = "Hello" -> "hello"
      [] w = "X" -> "x"
      [] OTHER -> w

\* text.lower(), as words
Lower(t) == [i \in 1..Len(Words(t)) |-> LowerWord(Words(t)[i])]

\* kw in text, for a keyword given by its words and a text given by its words
Contains(ws, kw) ==
    \E i \in 0..(Len(ws) - Len(kw)) :
        \A j \in 1..Len(kw) : ws[i + j] = kw[j]

\* one awaited call of self.llm.complete / complete_with_tools, as logged
LlmCall(purpose, ok) == [to |-> "llm", purpose |-> purpose, ok |-> ok]

\* one awaited call of self.web_search.search, with the number of hits
SearchCall(ok, n) == [to |-> "search", ok |-> ok, hits |-> n]

\* one awaited call of self.mcp_client.call_tool
McpCall(call) == [to |-> "mcp", name |-> call.name, ok |-> call.ok]

(***************************************************************************)
(* Plan model (models/agents.py)                                           *)
(***************************************************************************)
\* PlanStep(agent=..., action=...): completed and result take their defaults
PlanStep(agent, action) ==
    [agent |-> agent, action |-> action, completed |-> FALSE, result |-> None]

\* PlanStep(**d) that takes the default for result
PlanStepFromDictWithoutResult(d) ==
    [agent |-> d["agent"], action |-> d["action"],
     completed |-> Get(d, "completed", FALSE), result |-> None]

\* PlanStep(**d): field by field, defaults for the missing optional fields
PlanStepFromDict(d) ==
    [agent |-> d["agent"], action |-> d["action"],
     completed |-> Get(d, "completed", FALSE), result |-> Get(d, "result", None)]

\* Plan(goal=..., steps=...) built without the cursor, which takes its default
PlanWithoutCursor(d) ==
    [goal |-> d["goal"],
     steps |-> [i \in 1..Len(Get(d, "steps", <<>>)) |-> PlanStepFromDict(d["steps"][i])],
     current_step_index |-> 0]

\* Plan(**d)
Plan(d) ==
    [goal |-> d["goal"],
     steps |-> [i \in 1..Len(Get(d, "steps", <<>>)) |-> PlanStepFromDict(d["steps"][i])],
     current_step_index |-> Get(d, "current_step_index", 0)]

\* plan.model_dump(): the dictionary form, nested models dumped as well
model_dump(plan) ==
    [goal |-> plan.goal,
     steps |-> [i \in 1..Len(plan.steps) |->
                  [agent |-> plan.steps[i].agent, action |-> plan.steps[i].action,
                   completed |-> plan.steps[i].completed,
                   result |-> plan.steps[i].result]],
     current_step_index |-> plan.current_step_index]

get_current_step(plan) ==
    IF plan.current_step_index < Len(plan.steps)
    THEN plan.steps[plan.current_step_index + 1]
    ELSE NoneRec

\* position (1-based) of the first step with completed = FALSE, 0 if none
FirstIncomplete(steps) ==
    IF \E i \in 1..Len(steps) : ~steps[i].completed
    THEN CHOOSE i \in 1..Len(steps) :
            /\ ~steps[i].completed
            /\ \A j \in 1..(i - 1) : steps[j].completed
    ELSE 0

\* the scan for an incomplete step keeping the last one it meets
get_last_incomplete_step(plan) ==
    LET open == { i \in 1..Len(plan.steps) : ~plan.steps[i].completed }
    IN  IF open = {} THEN NoneRec
        ELSE plan.steps[CHOOSE i \in open : \A j \in open : j <= i]

get_next_incomplete_step(plan) ==
    IF FirstIncomplete(plan.steps) = 0 THEN NoneRec
    ELSE plan.steps[FirstIncomplete(plan.steps)]

\* marking the first incomplete step instead of the step at the cursor
mark_first_incomplete_completed(plan, result) ==
    IF plan.current_step_index < Len(plan.steps) /\ FirstIncomplete(plan.steps) # 0
    THEN [plan EXCEPT
            !.steps[FirstIncomplete(plan.steps)].completed = TRUE,
            !.steps[FirstIncomplete(plan.steps)].result = result,
            !.current_step_index = plan.current_step_index + 1]
    ELSE plan

\* marking the step at the cursor without moving the cursor on
mark_current_step_completed_in_place(plan, result) ==
    IF plan.current_step_index < Len(plan.steps)
    THEN [plan EXCEPT
            !.steps[plan.current_step_index + 1].completed = TRUE,
            !.steps[plan.current_step_index + 1].result = result]
    ELSE plan

\* mark_current_step_completed advancing the cursor whatever its position
mark_current_step_completed_unguarded(plan, result) ==
    IF plan.current_step_index < Len(plan.steps)
    THEN [plan EXCEPT
            !.steps[plan.current_step_index + 1].completed = TRUE,
            !.steps[plan.current_step_index + 1].result = result,
            !.current_step_index = plan.current_step_index + 1]
    ELSE [plan EXCEPT !.current_step_index = plan.current_step_index + 1]

mark_current_step_completed(plan, result) ==
    IF plan.current_step_index < Len(plan.steps)
    THEN [plan EXCEPT
            !.steps[plan.current_step_index + 1].completed = TRUE,
            !.steps[plan.current_step_index + 1].result = result,
            !.current_step_index = plan.current_step_index + 1]
    ELSE plan

\* is_complete decided by the cursor instead of the completion flags
is_complete_by_cursor(plan) == plan.current_step_index >= Len(plan.steps)

is_complete(plan) == \A i \in 1..Len(plan.steps) : plan.steps[i].completed

(***************************************************************************)
(* Routing (graph/edges.py, OrchestratorAgent.get_next_agent)              *)
(***************************************************************************)
\* the conditional edge with the two worker targets exchanged
route_from_orchestrator_exchanged(st) ==
    LET next_agent == Get(st, "next_agent", None) IN
    IF next_agent = "threads" THEN "web_search"
    ELSE IF next_agent = "web_search" THEN "threads"
    ELSE "response"

route_from_orchestrator(st) ==
    LET next_agent == Get(st, "next_agent", None) IN
    IF next_agent = "threads" THEN "threads"
    ELSE IF next_agent = "web_search" THEN "web_search"
    ELSE "response"

\* get_next_agent without the membership test
get_next_agent_unchecked(st) == Get(st, "next_agent", "response")

get_next_agent(st) ==
    LET next_agent == Get(st, "next_agent", "response") IN
    IF next_agent \in {"threads", "web_search", "response"} THEN next_agent
    ELSE "response"

(***************************************************************************)
(* Orchestrator (agents/orchestrator.py)                                   *)
(*                                                                         *)
(* An LLM response text is a sequence of tokens: [t |-> "fence_json"] is   *)
(* the text ```json, [t |-> "fence"] the text ```, [t |-> "junk"] text     *)
(* that is no JSON, and [t |-> "json", v |-> x] a well-formed JSON value,  *)
(* x being [k |-> "object", d |-> dict] or [k |-> "array"], "null", ...    *)
(***************************************************************************)
\* response[7:] when response.startswith("```json")
StripJsonFence(r) ==
    IF Len(r) > 0 /\ r[1].t = "fence_json" THEN Tail(r) ELSE r

\* response[3:] when response.startswith("```"); ```json loses its backticks
StripFence(r) ==
    IF Len(r) > 0 /\ r[1].t = "fence" THEN Tail(r)
    ELSE IF Len(r) > 0 /\ r[1].t = "fence_json" THEN <<[t |-> "junk"]>> \o Tail(r)
    ELSE r

\* response[:-3] when response.endswith("```")
StripTrailingFence(r) ==
    IF Len(r) > 0 /\ r[Len(r)].t = "fence" THEN SubSeq(r, 1, Len(r) - 1) ELSE r

\* json.loads succeeds on exactly one well-formed JSON value
JsonLoads(r) ==
    IF Len(r) = 1 /\ r[1].t = "json"
    THEN [ok |-> TRUE, value |-> r[1].v]
    ELSE [ok |-> FALSE]

ParseFailureDecision ==
    [k |-> "object",
     d |-> [evaluation |-> "Failed to parse LLM response",
            decision |-> "continue",
            reasoning |-> "Defaulting to continue due to parse error",
            modifications |-> <<>>]]

_tool_parse_decision(response) ==
    LET stripped == StripTrailingFence(StripFence(StripJsonFence(response)))
        loaded == JsonLoads(stripped)
    IN IF loaded.ok THEN loaded.value ELSE ParseFailureDecision

communication_keywords ==
    { <<"inform", "the", "user">>, <<"tell", "the", "user">>,
      <<"explain", "to">>, <<"notify", "the", "user">> }

\* the keyword test on the action text as written, without lower()
is_communication_case_sensitive(mod) ==
    \E kw \in communication_keywords : Contains(Words(Get(mod, "action", "")), kw)

\* any(kw in action for kw in communication_keywords), action lower-cased
is_communication(mod) ==
    \E kw \in communication_keywords : Contains(Lower(Get(mod, "action", "")), kw)

\* the modification passes both filters of the loop and becomes a step
Survives(mod) ==
    /\ ~is_communication(mod)
    /\ Get(mod, "agent", None) \in {"web_search", "threads"}
    /\ Get(mod, "action", None) \notin {None, ""}

RECURSIVE NewSteps(_)
NewSteps(modifications) ==
    IF modifications = <<>> THEN <<>>
    ELSE LET mod == Head(modifications) IN
         (IF Survives(mod) THEN <<PlanStep(mod["agent"], mod["action"])>> ELSE <<>>)
         \o NewSteps(Tail(modifications))

\* insert_idx left at its initial value
InsertIdxFront(steps) == 0

\* insert_idx: one past the last completed step, 0 when none is completed
InsertIdx(steps) ==
    IF \E i \in 1..Len(steps) : steps[i].completed
    THEN CHOOSE i \in 1..Len(steps) :
            /\ steps[i].completed
            /\ \A j \in (i + 1)..Len(steps) : ~steps[j].completed
    ELSE 0

\* every new step inserted at insert_idx itself
RECURSIVE InsertStepsReversed(_, _, _)
InsertStepsReversed(steps, new_steps, at) ==
    IF new_steps = <<>> THEN steps
    ELSE InsertStepsReversed(ListInsert(steps, at, Head(new_steps)), Tail(new_steps), at)

\* for i, new_step in enumerate(new_steps): steps.insert(insert_idx + i, new_step)
RECURSIVE InsertSteps(_, _, _)
InsertSteps(steps, new_steps, at) ==
    IF new_steps = <<>> THEN steps
    ELSE InsertSteps(ListInsert(steps, at, Head(new_steps)), Tail(new_steps), at + 1)

\* the routing that writes the plan back with the results of its steps cleared
RouteByPlanClearingResults(st, plan) ==
    LET next_step == get_next_incomplete_step(plan)
        cleared == [plan EXCEPT !.steps =
                       [i \in 1..Len(plan.steps) |-> [plan.steps[i] EXCEPT !.result = None]]]
    IN IF next_step # NoneRec
       THEN [st EXCEPT !.next_agent = next_step.agent,
                       !.current_action = next_step.action,
                       !.plan = model_dump(cleared)]
       ELSE [st EXCEPT !.next_agent = "response", !.plan = model_dump(cleared)]

\* the routing that leaves current_action as it was
RouteByPlanKeepingAction(st, plan) ==
    LET next_step == get_next_incomplete_step(plan) IN
    IF next_step # NoneRec
    THEN [st EXCEPT !.next_agent = next_step.agent, !.plan = model_dump(plan)]
    ELSE [st EXCEPT !.next_agent = "response", !.plan = model_dump(plan)]

\* lines 229-239: route to the next incomplete step, or to response
RouteByPlan(st, plan) ==
    LET next_step == get_next_incomplete_step(plan) IN
    IF next_step # NoneRec
    THEN [st EXCEPT !.next_agent = next_step.agent,
                    !.current_action = next_step.action,
                    !.plan = model_dump(plan)]
    ELSE [st EXCEPT !.next_agent = "response", !.plan = model_dump(plan)]

\* lines 186-188 and 225-227
RouteToResponse(st, plan) ==
    [st EXCEPT !.next_agent = "response", !.plan = model_dump(plan)]

\* process_decision without the early return for complete
_tool_process_decision_no_complete(st, plan, decision) ==
    LET decision_type == Get(decision, "decision", "continue")
        modifications == Get(decision, "modifications", <<>>)
        new_steps == NewSteps(modifications)
        modified == [plan EXCEPT !.steps =
                        InsertSteps(plan.steps, new_steps, InsertIdx(plan.steps))]
    IN IF decision_type = "modify" /\ modifications # <<>>
       THEN IF new_steps # <<>> THEN RouteByPlan(st, modified)
            ELSE RouteToResponse(st, plan)
       ELSE RouteByPlan(st, plan)

\* process_decision choosing the route before the new steps are inserted
_tool_process_decision_routing_first(st, plan, decision) ==
    LET decision_type == Get(decision, "decision", "continue")
        modifications == Get(decision, "modifications", <<>>)
        new_steps == NewSteps(modifications)
        modified == [plan EXCEPT !.steps =
                        InsertSteps(plan.steps, new_steps, InsertIdx(plan.steps))]
    IN IF decision_type = "complete" THEN RouteToResponse(st, plan)
       ELSE IF decision_type = "modify" /\ modifications # <<>>
       THEN IF new_steps # <<>>
            THEN [RouteByPlan(st, plan) EXCEPT !.plan = model_dump(modified)]
            ELSE RouteToResponse(st, plan)
       ELSE RouteByPlan(st, plan)

\* process_decision ending the loop only when every dropped proposal was
\* user communication
_tool_process_decision_communication_only(st, plan, decision) ==
    LET decision_type == Get(decision, "decision", "continue")
        modifications == Get(decision, "modifications", <<>>)
        new_steps == NewSteps(modifications)
        modified == [plan EXCEPT !.steps =
                        InsertSteps(plan.steps, new_steps, InsertIdx(plan.steps))]
    IN IF decision_type = "complete" THEN RouteToResponse(st, plan)
       ELSE IF decision_type = "modify" /\ modifications # <<>>
       THEN IF new_steps # <<>> THEN RouteByPlan(st, modified)
            ELSE IF \A i \in 1..Len(modifications) : is_communication(modifications[i])
            THEN RouteToResponse(st, plan)
            ELSE RouteByPlan(st, plan)
       ELSE RouteByPlan(st, plan)

_tool_process_decision(st, plan, decision) ==
    LET decision_type == Get(decision, "decision", "continue")
        modifications == Get(decision, "modifications", <<>>)
        new_steps == NewSteps(modifications)
        modified == [plan EXCEPT !.steps =
                        InsertSteps(plan.steps, new_steps, InsertIdx(plan.steps))]
    IN IF decision_type = "complete" THEN RouteToResponse(st, plan)
       ELSE IF decision_type = "modify" /\ modifications # <<>>
       THEN IF new_steps # <<>> THEN RouteByPlan(st, modified)
            ELSE RouteToResponse(st, plan)
       ELSE RouteByPlan(st, plan)

\* the orchestrator looking for the plan only after the LLM has answered
OrchestratorInvokeCheckingPlanLate(st, llm) ==
    IF ~llm.ok
    THEN [raised |-> llm.error, calls |-> <<LlmCall("evaluate", FALSE)>>]
    ELSE IF st.plan = NoneRec
    THEN [raised |-> "OrchestrationError", calls |-> <<LlmCall("evaluate", TRUE)>>]
    ELSE LET decision == _tool_parse_decision(llm.content) IN
         IF decision.k # "object"
         THEN [raised |-> "AttributeError", calls |-> <<LlmCall("evaluate", TRUE)>>]
         ELSE [raised |-> None,
               calls |-> <<LlmCall("evaluate", TRUE)>>,
               state |-> _tool_process_decision(st, Plan(st.plan), decision.d)]

\* OrchestratorAgent.invoke; llm is the outcome of the one LLM call
OrchestratorInvoke(st, llm) ==
    IF st.plan = NoneRec
    THEN [raised |-> "OrchestrationError", calls |-> <<>>]
    ELSE IF ~llm.ok
    THEN [raised |-> llm.error, calls |-> <<LlmCall("evaluate", FALSE)>>]
    ELSE LET decision == _tool_parse_decision(llm.content) IN
         IF decision.k # "object"
         THEN [raised |-> "AttributeError", calls |-> <<LlmCall("evaluate", TRUE)>>]
         ELSE [raised |-> None,
               calls |-> <<LlmCall("evaluate", TRUE)>>,
               state |-> _tool_process_decision(st, Plan(st.plan), decision.d)]

(***************************************************************************)
(* Workflow state (graph/state.py)                                         *)
(***************************************************************************)
create_initial_state(messages) ==
    [messages |-> messages,
     plan |-> NoneRec,
     web_search_results |-> <<>>,
     threads_results |-> <<>>,
     current_action |-> "",
     next_agent |-> None,
     error |-> None,
     output |-> None]

Msg(role, content) == [role |-> role, content |-> content]

\* for msg in state["messages"]: if msg["role"] == "user": ...; break
FirstUserMessage(messages) ==
    IF \E i \in 1..Len(messages) : messages[i].role = "user"
    THEN messages[CHOOSE i \in 1..Len(messages) :
                    /\ messages[i].role = "user"
                    /\ \A j \in 1..(i - 1) : messages[j].role # "user"].content
    ELSE ""

\* for msg in reversed(state["messages"]): if msg["role"] == "user": ...; break
LastUserMessage(messages) ==
    IF \E i \in 1..Len(messages) : messages[i].role = "user"
    THEN messages[CHOOSE i \in 1..Len(messages) :
                    /\ messages[i].role = "user"
                    /\ \A j \in (i + 1)..Len(messages) : messages[j].role # "user"].content
    ELSE None

\* the message node n takes as the user's request from the messages of st
user_request(n, st) ==
    IF n = "planning" THEN LastUserMessage(st.messages)
    ELSE FirstUserMessage(st.messages)

(***************************************************************************)
(* Plan-builder (agents/planning.py)                                       *)
(***************************************************************************)
\* kw in word, for the words of the model
WordHas(w, kw) ==
    \/ w = kw
    \/ <<w, kw>> \in { <<"threads", "thread">>, <<"posts", "post">> }

\* any(kw in user_message.lower() for kw in keywords), one-word keywords
AnyKeyword(text, keywords) ==
    \E i \in 1..Len(Lower(text)) : \E kw \in keywords : WordHas(Lower(text)[i], kw)

search_keywords ==
    {"news", "trending", "latest", "search", "find", "research", "information"}

post_keywords == {"post", "share", "publish", "thread", "create"}

\* a fallback that gives up on the keywords when the response is empty
_create_fallback_plan_by_response(user_message, _response) ==
    LET search == IF AnyKeyword(user_message, search_keywords) /\ _response # <<>>
                  THEN <<PlanStep("web_search", "Search for relevant information")>>
                  ELSE <<>>
        post == IF AnyKeyword(user_message, post_keywords) /\ _response # <<>>
                THEN <<PlanStep("threads", "Create and publish post on Threads")>>
                ELSE <<>>
        steps == search \o post
    IN [goal |-> user_message,
        steps |-> IF steps = <<>>
                  THEN <<PlanStep("threads", "Process user request on Threads")>>
                  ELSE steps,
        current_step_index |-> 0]

_create_fallback_plan(user_message, _response) ==
    LET search == IF AnyKeyword(user_message, search_keywords)
                  THEN <<PlanStep("web_search", "Search for relevant information")>>
                  ELSE <<>>
        post == IF AnyKeyword(user_message, post_keywords)
                THEN <<PlanStep("threads", "Create and publish post on Threads")>>
                ELSE <<>>
        steps == search \o post
    IN [goal |-> user_message,
        steps |-> IF steps = <<>>
                  THEN <<PlanStep("threads", "Process user request on Threads")>>
                  ELSE steps,
        current_step_index |-> 0]

\* the tokens that hold a brace: JSON objects, and junk with a stray brace
HasBrace(tok) ==
    \/ tok.t = "json" /\ tok.v.k = "object"
    \/ tok.t = "brace_junk"

\* response[response.find("{") : response.rfind("}") + 1], [] if no brace
BraceSlice(r) ==
    IF \E i \in 1..Len(r) : HasBrace(r[i])
    THEN LET first == CHOOSE i \in 1..Len(r) :
                        HasBrace(r[i]) /\ \A j \in 1..(i - 1) : ~HasBrace(r[j])
             last == CHOOSE i \in 1..Len(r) :
                        HasBrace(r[i]) /\ \A j \in (i + 1)..Len(r) : ~HasBrace(r[j])
         IN SubSeq(r, first, last)
    ELSE <<>>

\* the step built with the agent as declared
ParsedStepAsDeclared(step_data) ==
    PlanStep(Get(step_data, "agent", "threads"), Get(step_data, "action", ""))

\* the step the loop builds from one step_data dict
ParsedStep(step_data) ==
    LET agent == Get(step_data, "agent", "threads") IN
    PlanStep(IF agent \notin {"web_search", "threads"} THEN "threads" ELSE agent,
             Get(step_data, "action", ""))

\* _tool_parse_plan: [raised, plan]
_tool_parse_plan(response, user_message) ==
    LET loaded == JsonLoads(BraceSlice(response)) IN
    IF BraceSlice(response) # <<>> /\ loaded.ok
    THEN LET data == loaded.value.d
             items == Get(data, "steps", <<>>)
         IN IF \E i \in 1..Len(items) : items[i].k # "object"
            THEN [raised |-> "AttributeError"]
            ELSE [raised |-> None,
                  plan |-> [goal |-> Get(data, "goal", user_message),
                            steps |-> [i \in 1..Len(items) |-> ParsedStep(items[i].d)],
                            current_step_index |-> 0]]
    ELSE [raised |-> None, plan |-> _create_fallback_plan(user_message, response)]

\* the call of _tool_generate_plan, logged with the text it returned
PlanCall(llm) ==
    [to |-> "llm", purpose |-> "plan", ok |-> llm.ok,
     content |-> IF llm.ok THEN llm.content ELSE <<>>]

\* PlanningAgent.invoke; llm is the outcome of the one LLM call
PlanningInvoke(st, llm) ==
    LET user_message == LastUserMessage(st.messages) IN
    IF user_message \in {None, ""}
    THEN [raised |-> "PlanningError", calls |-> <<>>]
    ELSE IF ~llm.ok
    THEN [raised |-> "PlanningError", calls |-> <<PlanCall(llm)>>]
    ELSE LET parsed == _tool_parse_plan(llm.content, user_message) IN
         IF parsed.raised # None
         THEN [raised |-> "PlanningError", calls |-> <<PlanCall(llm)>>]
         ELSE [raised |-> None,
               calls |-> <<PlanCall(llm)>>,
               state |-> [st EXCEPT
                   !.plan = model_dump(parsed.plan),
                   !.messages = st.messages \o
                       <<Msg("assistant", "Plan created: " \o parsed.plan.goal)>>]]

(***************************************************************************)
(* Web-research worker (agents/web_search.py)                              *)
(***************************************************************************)
NoResultsText == "No relevant search results found for this query."

\* _tool_synthesize asking the LLM whatever the hits
_tool_synthesize_always_llm(results, llm) ==
    IF llm.ok THEN [ok |-> TRUE, content |-> llm.content, called |-> TRUE]
    ELSE [ok |-> FALSE, called |-> TRUE]

\* _tool_synthesize: the fixed sentence without an LLM call when no hit
_tool_synthesize(results, llm) ==
    IF results = <<>> THEN [ok |-> TRUE, content |-> NoResultsText, called |-> FALSE]
    ELSE IF llm.ok THEN [ok |-> TRUE, content |-> llm.content, called |-> TRUE]
    ELSE [ok |-> FALSE, called |-> TRUE]

\* WebSearchAgent.invoke; queryLlm, hits, synthLlm are the collaborators' outcomes
WebSearchInvoke(st, queryLlm, hits, synthLlm) ==
    IF ~queryLlm.ok
    THEN [raised |-> "AgentError", calls |-> <<LlmCall("query", FALSE)>>]
    ELSE IF ~hits.ok
    THEN [raised |-> "AgentError",
          calls |-> <<LlmCall("query", TRUE), SearchCall(FALSE, 0)>>]
    ELSE LET synthesis == _tool_synthesize(hits.results, synthLlm)
             issued == <<LlmCall("query", TRUE), SearchCall(TRUE, Len(hits.results))>>
                       \o (IF synthesis.called
                           THEN <<LlmCall("synthesis", synthesis.ok)>> ELSE <<>>)
         IN
         IF ~synthesis.ok THEN [raised |-> "AgentError", calls |-> issued]
         ELSE [raised |-> None,
               calls |-> issued,
               state |-> [st EXCEPT
                   !.web_search_results = hits.results,
                   !.plan = IF st.plan # NoneRec
                            THEN model_dump(mark_current_step_completed(
                                     Plan(st.plan), synthesis.content))
                            ELSE st.plan,
                   !.messages = st.messages \o <<Msg("assistant", synthesis.content)>>]]

(***************************************************************************)
(* Platform-action worker (agents/threads.py)                              *)
(***************************************************************************)
\* _tool_execute_mcp: a failed call yields an inline error string
_tool_execute_mcp(call) ==
    IF call.ok THEN call.text ELSE "Error calling " \o call.name \o ": failed"

\* "\n\n".join(results)
RECURSIVE Join(_)
Join(results) ==
    IF results = <<>> THEN ""
    ELSE IF Len(results) = 1 THEN results[1]
    ELSE results[1] \o "\n\n" \o Join(Tail(results))

\* the call of llm.complete_with_tools, logged with the tools it asked for
DecideCall(decided) ==
    [to |-> "llm", purpose |-> "decide", ok |-> decided.ok,
     requested |-> IF decided.ok
                   THEN [i \in 1..Len(decided.tool_calls) |-> decided.tool_calls[i].name]
                   ELSE <<>>]

\* the worker giving up at the first tool call that fails
ThreadsInvokeStoppingAtFailure(st, toolsOk, decided) ==
    IF ~toolsOk THEN [raised |-> "AgentError", calls |-> <<>>]
    ELSE IF ~decided.ok
    THEN [raised |-> "AgentError", calls |-> <<DecideCall(decided)>>]
    ELSE IF \E i \in 1..Len(decided.tool_calls) : ~decided.tool_calls[i].ok
    THEN LET failed == CHOOSE i \in 1..Len(decided.tool_calls) :
                          /\ ~decided.tool_calls[i].ok
                          /\ \A j \in 1..(i - 1) : decided.tool_calls[j].ok
         IN [raised |-> "AgentError",
             calls |-> <<DecideCall(decided)>> \o
                       [i \in 1..failed |-> McpCall(decided.tool_calls[i])]]
    ELSE LET results == [i \in 1..Len(decided.tool_calls) |->
                            _tool_execute_mcp(decided.tool_calls[i])]
             final_result == IF results # <<>> THEN Join(results)
                             ELSE IF decided.content # "" THEN decided.content
                             ELSE "No action taken"
         IN [raised |-> None,
             calls |-> <<DecideCall(decided)>> \o
                       [i \in 1..Len(decided.tool_calls) |-> McpCall(decided.tool_calls[i])],
             state |-> [st EXCEPT
                 !.plan = IF st.plan # NoneRec
                          THEN model_dump(mark_current_step_completed(
                                   Plan(st.plan), final_result))
                          ELSE st.plan,
                 !.threads_results = st.threads_results \o
                     <<[action |-> st.current_action, result |-> final_result]>>,
                 !.messages = st.messages \o <<Msg("assistant", final_result)>>]]

\* ThreadsAgent.invoke; decided is the outcome of the function-calling LLM call
ThreadsInvoke(st, toolsOk, decided) ==
    IF ~toolsOk THEN [raised |-> "AgentError", calls |-> <<>>]
    ELSE IF ~decided.ok
    THEN [raised |-> "AgentError", calls |-> <<DecideCall(decided)>>]
    ELSE LET results == [i \in 1..Len(decided.tool_calls) |->
                            _tool_execute_mcp(decided.tool_calls[i])]
             final_result == IF results # <<>> THEN Join(results)
                             ELSE IF decided.content # "" THEN decided.content
                             ELSE "No action taken"
         IN [raised |-> None,
             calls |-> <<DecideCall(decided)>> \o
                       [i \in 1..Len(decided.tool_calls) |-> McpCall(decided.tool_calls[i])],
             state |-> [st EXCEPT
                 !.plan = IF st.plan # NoneRec
                          THEN model_dump(mark_current_step_completed(
                                   Plan(st.plan), final_result))
                          ELSE st.plan,
                 !.threads_results = st.threads_results \o
                     <<[action |-> st.current_action, result |-> final_result]>>,
                 !.messages = st.messages \o <<Msg("assistant", final_result)>>]]

(***************************************************************************)
(* Response-synthesizer (agents/response.py)                               *)
(***************************************************************************)
\* the response-synthesizer returning the output without the message
ResponseInvokeWithoutMessage(st, llm) ==
    IF ~llm.ok THEN [raised |-> "AgentError", calls |-> <<LlmCall("respond", FALSE)>>]
    ELSE [raised |-> None,
          calls |-> <<LlmCall("respond", TRUE)>>,
          state |-> [st EXCEPT !.output = llm.content]]

\* the response-synthesizer appending its message without setting output
ResponseInvokeWithoutOutput(st, llm) ==
    IF ~llm.ok THEN [raised |-> "AgentError", calls |-> <<LlmCall("respond", FALSE)>>]
    ELSE [raised |-> None,
          calls |-> <<LlmCall("respond", TRUE)>>,
          state |-> [st EXCEPT
              !.messages = st.messages \o <<Msg("assistant", llm.content)>>]]

ResponseInvoke(st, llm) ==
    IF ~llm.ok THEN [raised |-> "AgentError", calls |-> <<LlmCall("respond", FALSE)>>]
    ELSE [raised |-> None,
          calls |-> <<LlmCall("respond", TRUE)>>,
          state |-> [st EXCEPT
              !.output = llm.content,
              !.messages = st.messages \o <<Msg("assistant", llm.content)>>]]

(***************************************************************************)
(* Inputs: conversations and collaborator outcomes                         *)
(***************************************************************************)
InitialMessages ==
    { <<Msg("user", "Find and share news")>>,
      <<Msg("user", "Find news"), Msg("assistant", "Hello there"),
        Msg("user", "Hello there")>>,
      <<Msg("assistant", "Hello there")>> }

LlmOk(content) == [ok |-> TRUE, content |-> content]
LlmFailure == [ok |-> FALSE, error |-> "LLMConnectionError"]

JsonObject(d) == [t |-> "json", v |-> [k |-> "object", d |-> d]]
JsonArray == [t |-> "json", v |-> [k |-> "array"]]
Junk == [t |-> "junk"]
BraceJunk == [t |-> "brace_junk"]
Fence == [t |-> "fence"]
FenceJson == [t |-> "fence_json"]

\* sequences over S of length at most n
SeqsUpTo(S, n) == UNION { [1..k -> S] : k \in 0..n }

\* step_data dicts the planning LLM may put in "steps", in any combination
PlannerStepData ==
    { [k |-> "object", d |-> [agent |-> "web_search", action |-> "Search for AI news"]],
      [k |-> "object", d |-> [agent |-> "threads", action |-> "Post the summary"]],
      [k |-> "object", d |-> [agent |-> "email", action |-> "Post the summary"]] }

\* further step_data values, proposed alone
LonePlannerStepData ==
    { [k |-> "object", d |-> [action |-> "Post the summary"]],
      [k |-> "object", d |-> [agent |-> "web_search"]],
      [k |-> "string"] }

PlannerObjects ==
    { [goal |-> "Grow the audience", steps |-> ss] : ss \in SeqsUpTo(PlannerStepData, 2) }
    \cup { [goal |-> "Grow the audience", steps |-> <<sd>>] : sd \in LonePlannerStepData }
    \cup { [steps |-> ss] : ss \in SeqsUpTo(PlannerStepData, 1) }
    \cup { [goal |-> "Grow the audience"] }

PlannerResponses ==
    { <<JsonObject(d)>> : d \in PlannerObjects }
    \cup { <<Junk, JsonObject(d), Junk>> : d \in { o \in PlannerObjects : "steps" \notin DOMAIN o } }
    \cup { <<>>, <<Junk>>, <<BraceJunk>>, <<JsonArray>>,
           <<JsonObject([goal |-> "Grow the audience"]), Junk, BraceJunk>>,
           <<JsonObject([goal |-> "Grow the audience"]),
             JsonObject([goal |-> "Grow the audience"])>> }

\* modifications the orchestrator LLM may propose, in any combination
Modifications ==
    { [agent |-> "web_search", action |-> "Search for X with different keywords"],
      [agent |-> "threads", action |-> "Post the summary"],
      [agent |-> "threads", action |-> "Inform the User of the failure"] }

\* further modifications, proposed alone
LoneModifications ==
    { [agent |-> "web_search", action |-> "please NOTIFY THE USER"],
      [agent |-> "threads", action |-> "Tell the user why"],
      [action |-> "explain to them"],
      [agent |-> "response", action |-> "Post the summary"],
      [agent |-> "threads", action |-> ""],
      [agent |-> "web_search"],
      [action |-> "Post the summary"] }

\* proposals dropped for different reasons, together
MixedDropped ==
    << [agent |-> "response", action |-> "Post the summary"],
       [agent |-> "threads", action |-> "Tell the user why"],
       [agent |-> "web_search"] >>

Decisions ==
    { [decision |-> "modify", modifications |-> ms] : ms \in SeqsUpTo(Modifications, MaxMods) }
    \cup { [decision |-> "modify", modifications |-> <<m>>] : m \in LoneModifications }
    \cup { [decision |-> "modify", modifications |-> MixedDropped] }
    \cup { [decision |-> "complete", modifications |-> ms] : ms \in SeqsUpTo(Modifications, 1) }
    \cup { [decision |-> "continue", modifications |-> <<>>],
           [decision |-> "retry", modifications |-> <<>>],
           [decision |-> "modify"],
           [decision |-> "complete"],
           [evaluation |-> "Good"] }

FencedDecisions ==
    { [decision |-> "continue", modifications |-> <<>>],
      [decision |-> "complete", modifications |-> <<>>],
      [decision |-> "modify", modifications |->
          <<[agent |-> "web_search", action |-> "Search for X with different keywords"]>>] }

OrchestratorResponses ==
    { <<JsonObject(d)>> : d \in Decisions }
    \cup { <<FenceJson, JsonObject(d), Fence>> : d \in FencedDecisions }
    \cup { <<Fence, JsonObject(d), Fence>> : d \in FencedDecisions }
    \cup { <<Fence, FenceJson, JsonObject(d), Fence>> : d \in FencedDecisions }
    \cup { <<JsonObject(d), Junk>> : d \in FencedDecisions }
    \cup { <<>>, <<Junk>>, <<FenceJson, Junk, Fence>>, <<JsonArray>>,
           <<FenceJson, JsonArray, Fence>> }

Hit == [title |-> "AI news", url |-> "https://example.com/ai",
        snippet |-> "AI is trending", source |-> "duckduckgo"]

SearchOutcomes ==
    { [ok |-> TRUE, results |-> <<>>], [ok |-> TRUE, results |-> <<Hit>>], [ok |-> FALSE] }

ToolCallOk == [name |-> "create_post", ok |-> TRUE, text |-> "Post created"]
ToolCallFailed == [name |-> "delete_post", ok |-> FALSE]

DecideOutcomes ==
    { [ok |-> TRUE, content |-> "", tool_calls |-> <<>>],
      [ok |-> TRUE, content |-> "", tool_calls |-> <<ToolCallOk>>],
      [ok |-> TRUE, content |-> "", tool_calls |-> <<ToolCallFailed, ToolCallOk>>],
      [ok |-> FALSE] }

(***************************************************************************)
(* Record of the orchestrator's latest evaluation, kept for the properties *)
(* (the agent logs the same facts).  The modifications are recorded by the *)
(* kind of their text and agent, read off the raw response.                *)
(***************************************************************************)
UserCommunicationPhrases ==
    { <<"inform", "the", "user">>, <<"tell", "the", "user">>,
      <<"explain", "to">>, <<"notify", "the", "user">> }

ModKind(mod) ==
    IF \E ph \in UserCommunicationPhrases : Contains(Lower(Get(mod, "action", "")), ph)
    THEN "communication"
    ELSE IF Get(mod, "agent", None) \notin {"web_search", "threads"} THEN "bad_agent"
    ELSE IF Get(mod, "action", "") = "" THEN "no_action"
    ELSE "step"

\* agent and action of the proposals of kind "step", in the order proposed
RECURSIVE ProposedSteps(_)
ProposedSteps(ms) ==
    IF ms = <<>> THEN <<>>
    ELSE (IF ModKind(Head(ms)) = "step"
          THEN << <<Head(ms)["agent"], Head(ms)["action"]>> >> ELSE <<>>)
         \o ProposedSteps(Tail(ms))

NoDecision == [parsed |-> "none", decision |-> None, mods |-> <<>>, steps |-> <<>>]

DecisionRecord(llm) ==
    IF ~llm.ok THEN [parsed |-> "no_response", decision |-> None, mods |-> <<>>, steps |-> <<>>]
    ELSE LET loaded == JsonLoads(StripTrailingFence(StripFence(StripJsonFence(llm.content))))
         IN IF ~loaded.ok THEN [parsed |-> "failed", decision |-> None, mods |-> <<>>, steps |-> <<>>]
            ELSE IF loaded.value.k # "object"
            THEN [parsed |-> "nonobject", decision |-> None, mods |-> <<>>, steps |-> <<>>]
            ELSE LET ms == Get(loaded.value.d, "modifications", <<>>) IN
                 [parsed |-> "object",
                  decision |-> Get(loaded.value.d, "decision", None),
                  mods |-> [i \in 1..Len(ms) |-> ModKind(ms[i])],
                  steps |-> ProposedSteps(ms)]

(***************************************************************************)
(* Graph runner (graph/workflow.py)                                        *)
(*                                                                         *)
(* step counts the supersteps taken so far: the START pass-through that    *)
(* hands the initial state to the entry point, then one per node           *)
(* execution.  The graph stops with a recursion error as soon as step      *)
(* exceeds the recursion limit, which run and stream set to                *)
(* max_iterations.                                                         *)
(***************************************************************************)
max_iterations == MaxIterations

\* the recursion limit is never applied
OutOfStepsNever(n) == FALSE

\* the recursion limit applied one superstep late
OutOfStepsLate(n) == n > max_iterations + 1

\* the config run and stream hand to the graph
RunConfig == [recursion_limit |-> max_iterations]
StreamConfig == [recursion_limit |-> max_iterations]

\* the superstep budget is used up
OutOfSteps(n) == n > (IF mode = "stream" THEN StreamConfig ELSE RunConfig).recursion_limit

\* the graph with the threads back-edge wired to response
NextNodeThreadsToResponse(n, st) ==
    CASE n = START -> "planning"
      [] n = "planning" -> "orchestrator"
      [] n = "orchestrator" -> route_from_orchestrator(st)
      [] n = "threads" -> "response"
      [] n = "web_search" -> "orchestrator"
      [] n = "response" -> END

\* add_edge / add_conditional_edges of build_workflow
NextNode(n, st) ==
    CASE n = START -> "planning"
      [] n = "planning" -> "orchestrator"
      [] n = "orchestrator" -> route_from_orchestrator(st)
      [] n = "threads" -> "orchestrator"
      [] n = "web_search" -> "orchestrator"
      [] n = "response" -> END

Running(n) == status = "running" /\ node = n /\ ~OutOfSteps(step)

\* run-to-completion: nothing is yielded
NotStreaming == mode = "run" /\ events = <<>> /\ sse = <<>>

\* one run at a time: no concurrent run exists
NotConcurrent == runs = <<>> /\ threads_agent = NoneRec /\ heap = <<>> /\ alone = <<>>

\* one event of generate_sse_events (api/routes/chat.py)
AgentEvent(n) == [event |-> "agent", data |-> n]
TokenEvent(content) == [event |-> "token", data |-> content]
ToolCallEvent(result) == [event |-> "tool_call", data |-> result.result]
DoneEvent == [event |-> "done", data |-> "Workflow completed successfully"]

\* the failure reported as a normal completion
ErrorEventAsDone(e) == DoneEvent

ErrorEvent(e) == [event |-> "error", data |-> e]

\* the stream keeping one event per node name, the latest
StreamYieldLatest(evs, n, st) ==
    LET Other(e) == e.node # n
    IN  Append(SelectSeq(evs, Other), [node |-> n, state |-> st])

\* for node_name, node_state in event.items(): yield {"node": ..., "state": ...}
StreamYield(evs, n, st) == Append(evs, [node |-> n, state |-> st])

\* the body of the async for loop of generate_sse_events for one event
SseForEvent(n, st) ==
    <<AgentEvent(n)>>
    \o (IF st.messages # <<>> /\ st.messages[Len(st.messages)].role = "assistant"
        THEN <<TokenEvent(st.messages[Len(st.messages)].content)>> ELSE <<>>)
    \o (IF n = "threads"
        THEN [i \in 1..Len(st.threads_results) |-> ToolCallEvent(st.threads_results[i])]
        ELSE <<>>)

\* what stream and generate_sse_events yield for one node execution
Streamed(n, result) ==
    /\ mode' = mode
    /\ events' = IF mode = "stream" /\ result.raised = None
                 THEN StreamYield(events, n, result.state) ELSE events
    /\ sse' = IF mode # "stream" THEN sse
              ELSE IF result.raised # None THEN Append(sse, ErrorEvent(result.raised))
              ELSE sse \o SseForEvent(n, result.state)

\* a runner that leaves the run alive when a node raises, so that the node
\* is invoked again
SuperstepRetrying(n, result) ==
    /\ calls' = result.calls
    /\ Streamed(n, result)
    /\ UNCHANGED conc_vars
    /\ IF result.raised # None
       THEN UNCHANGED <<state, node, step, executed, status, exc>>
       ELSE /\ state' = result.state
            /\ node' = NextNode(n, result.state)
            /\ step' = step + 1
            /\ executed' = Append(executed, n)
            /\ UNCHANGED <<status, exc>>

\* the node returned result: its state is written and the edge followed,
\* or its exception ends the run
Superstep(n, result) ==
    /\ calls' = result.calls
    /\ Streamed(n, result)
    /\ UNCHANGED conc_vars
    /\ IF result.raised # None
       THEN /\ status' = "failed"
            /\ exc' = result.raised
            /\ UNCHANGED <<state, node, step, executed>>
       ELSE /\ state' = result.state
            /\ node' = NextNode(n, result.state)
            /\ step' = step + 1
            /\ executed' = Append(executed, n)
            /\ UNCHANGED <<status, exc>>

Init ==
    /\ state \in { create_initial_state(m) : m \in InitialMessages }
    /\ node = START
    /\ step = 0
    /\ status = "running"
    /\ executed = <<>>
    /\ exc = None
    /\ last_decision = NoDecision
    /\ calls = <<>>
    /\ NotStreaming
    /\ NotConcurrent

StartNode ==
    /\ Running(START)
    /\ node' = NextNode(START, state)
    /\ step' = step + 1
    /\ UNCHANGED <<state, status, executed, exc, last_decision, calls, stream_vars, conc_vars>>

PlanningNode ==
    /\ Running("planning")
    /\ \E llm \in { LlmOk(r) : r \in PlannerResponses } \cup {LlmFailure} :
          Superstep("planning", PlanningInvoke(state, llm))
    /\ UNCHANGED last_decision

OrchestratorNode ==
    /\ Running("orchestrator")
    /\ \E llm \in { LlmOk(r) : r \in OrchestratorResponses } \cup {LlmFailure} :
          /\ (state.plan # NoneRec /\ llm.ok
                 /\ _tool_parse_decision(llm.content).k = "object")
                => Len(state.plan.steps)
                     + Len(NewSteps(Get(_tool_parse_decision(llm.content).d,
                                        "modifications", <<>>))) <= MaxPlanLen
          /\ Superstep("orchestrator", OrchestratorInvoke(state, llm))
          /\ last_decision' = IF OrchestratorInvoke(state, llm).calls = <<>>
                              THEN last_decision
                              ELSE DecisionRecord(llm)

WebSearchNode ==
    /\ Running("web_search")
    /\ \E queryLlm \in {LlmOk("AI news today"), LlmFailure},
          hits \in SearchOutcomes,
          synthLlm \in {LlmOk("Summary of the news"), LlmFailure} :
          Superstep("web_search", WebSearchInvoke(state, queryLlm, hits, synthLlm))
    /\ UNCHANGED last_decision

ThreadsNode ==
    /\ Running("threads")
    /\ \E toolsOk \in BOOLEAN, decided \in DecideOutcomes :
          Superstep("threads", ThreadsInvoke(state, toolsOk, decided))
    /\ UNCHANGED last_decision

ResponseNode ==
    /\ Running("response")
    /\ \E llm \in {LlmOk("Here is what was done"), LlmFailure} :
          Superstep("response", ResponseInvoke(state, llm))
    /\ UNCHANGED last_decision

\* no node is left to run: ainvoke returns the final state
Finish ==
    /\ Running(END)
    /\ status' = "done"
    /\ sse' = IF mode = "stream" THEN Append(sse, DoneEvent) ELSE sse
    /\ UNCHANGED <<state, node, step, executed, exc, last_decision, calls, mode, events, conc_vars>>

\* the recursion limit is reached: the graph raises instead of returning
RecursionLimit ==
    /\ status = "running"
    /\ OutOfSteps(step)
    /\ status' = "aborted"
    /\ exc' = "GraphRecursionError"
    /\ sse' = IF mode = "stream" THEN Append(sse, ErrorEvent("GraphRecursionError")) ELSE sse
    /\ UNCHANGED <<state, node, step, executed, last_decision, calls, mode, events, conc_vars>>

Next ==
    \/ StartNode
    \/ PlanningNode
    \/ OrchestratorNode
    \/ WebSearchNode
    \/ ThreadsNode
    \/ ResponseNode
    \/ Finish
    \/ RecursionLimit

Spec == Init /\ [][Next]_vars

\* An agent may also be invoked directly on a state, outside the graph:
\* DirectSpec adds the orchestrator invoked on a state that holds no plan.
DirectInit ==
    \/ Init
    \/ /\ state \in { create_initial_state(m) : m \in InitialMessages }
       /\ node = "orchestrator"
       /\ step = 1
       /\ status = "running"
       /\ executed = <<>>
       /\ exc = None
       /\ last_decision = NoDecision
       /\ calls = <<>>
       /\ NotStreaming
       /\ NotConcurrent

DirectSpec == DirectInit /\ [][Next]_vars

\* The same graph driven by WorkflowRunner.stream under generate_sse_events.
StreamInit ==
    /\ state \in { create_initial_state(m) : m \in InitialMessages }
    /\ node = START
    /\ step = 0
    /\ status = "running"
    /\ executed = <<>>
    /\ exc = None
    /\ last_decision = NoDecision
    /\ calls = <<>>
    /\ mode = "stream"
    /\ events = <<>>
    /\ sse = <<>>
    /\ NotConcurrent

StreamSpec == StreamInit /\ [][Next]_vars

\* the runner keeps stepping while the run is alive
FairSpec == Spec /\ WF_vars(Next)

FairStreamSpec == StreamSpec /\ WF_vars(Next)

TypeOK ==
    /\ status \in {"running", "done", "aborted", "failed"}
    /\ node \in {START, "planning", "orchestrator", "threads", "web_search", "response", END}
    /\ step \in 0..(max_iterations + 1)

(***************************************************************************)
(* Properties                                                              *)
(***************************************************************************)
Workers == {"web_search", "threads"}

PlanPresent == state.plan # NoneRec

LastExecuted == IF executed = <<>> THEN None ELSE executed[Len(executed)]

\* this step is a completed execution of the orchestrator node
OrchestratorRan == executed' = Append(executed, "orchestrator")

\* this step is an invocation of the orchestrator, completed or raising
OrchestratorInvoked ==
    /\ node = "orchestrator" /\ status = "running"
    /\ (executed' = Append(executed, "orchestrator") \/ status' = "failed")

IsPrefix(s, t) == Len(s) <= Len(t) /\ SubSeq(t, 1, Len(s)) = s

IsCompleted(st) == st.completed

\* the completed steps of the plan, in plan order
CompletedSteps(plan) == SelectSeq(plan.steps, IsCompleted)

HasIncompleteStep == PlanPresent /\ \E i \in 1..Len(state.plan.steps) : ~state.plan.steps[i].completed

\* C1: the number of node executions never exceeds max_iterations; a run
\* that has used its max_iterations executions and still has a node to run
\* is aborted with the recursion-limit error, and a final state is returned
\* only by a graph that reached END.
C1_IterationCeiling ==
    /\ [](/\ Len(executed) <= max_iterations
          /\ (status = "done" => node = END)
          /\ (status = "aborted" => exc = "GraphRecursionError"))
    /\ [][(status = "running" /\ Len(executed) = max_iterations /\ node # END)
            => (status' = "aborted" /\ state' = state /\ executed' = executed)]_vars

C1_Witness ==
    /\ status = "aborted"
    /\ Len(executed) = max_iterations
    /\ node # END
    /\ last_decision.decision = "modify"

\* C2: with no collaborator failure the run eventually terminates, normally
\* or by the recursion limit, having executed at most max_iterations nodes.
C2_Terminates ==
    [](status # "failed")
        => <>(status \in {"done", "aborted"} /\ Len(executed) <= max_iterations)

C2_Witness ==
    /\ status = "done"
    /\ last_decision.decision = "complete"
    /\ HasIncompleteStep
    /\ \E i \in 1..Len(executed) : executed[i] \in Workers

\* C3: the executed nodes are planning, orchestrator, then repetitions of
\* (worker, orchestrator), then at most one response as the last node; a
\* worker runs only between two orchestrator executions and nothing runs
\* after response.
C3_NodeSequenceShape ==
    /\ \A i \in 1..Len(executed) :
          /\ (executed[i] = "planning") <=> (i = 1)
          /\ i = 2 => executed[i] = "orchestrator"
          /\ executed[i] \in Workers =>
                /\ i > 2 /\ executed[i - 1] = "orchestrator"
                /\ i < Len(executed) => executed[i + 1] = "orchestrator"
          /\ (executed[i] = "orchestrator" /\ i < Len(executed)) =>
                executed[i + 1] \in Workers \cup {"response"}
          /\ executed[i] = "response" => i = Len(executed)
    /\ LastExecuted \in Workers \cup {"planning"} => node = "orchestrator"
    /\ LastExecuted = "response" => node = END

C3_Witness ==
    /\ LastExecuted = "response"
    /\ \E i \in 1..Len(executed) :
          /\ i + 2 <= Len(executed)
          /\ executed[i] = "threads"
          /\ executed[i + 2] = "web_search"

NextAgentValues == {"threads", "web_search", "response", None, "invalid", "planning", ""}

\* C4: after every orchestrator execution next_agent is web_search, threads
\* or response; route_from_orchestrator and get_next_agent agree on every
\* state and send a missing, null or unknown next_agent to response.
C4_NextAgentInRange ==
    /\ LastExecuted = "orchestrator" =>
          state.next_agent \in {"web_search", "threads", "response"}
    /\ route_from_orchestrator(state) = get_next_agent(state)
    /\ \A v \in NextAgentValues :
          LET st == [state EXCEPT !.next_agent = v] IN
          /\ route_from_orchestrator(st) = get_next_agent(st)
          /\ v \notin {"web_search", "threads"} => route_from_orchestrator(st) = "response"
    /\ LET missing == [k \in {"messages"} |-> state.messages] IN
          /\ route_from_orchestrator(missing) = "response"
          /\ get_next_agent(missing) = "response"

C4_Witness ==
    /\ LastExecuted = "orchestrator"
    /\ state.next_agent = "web_search"
    /\ node = "web_search"

\* C5: an orchestrator execution whose decision is complete sets next_agent
\* to response and leaves the plan as it was, whatever steps remain; the
\* node run next is response, and after response is selected no other node
\* runs.
C5_CompleteEndsLoop ==
    [][/\ (OrchestratorRan /\ last_decision'.decision = "complete") =>
            /\ state'.next_agent = "response"
            /\ state'.plan = state.plan
            /\ node' = "response"
       /\ node \in {"response", END} =>
            /\ node' \in {"response", END}
            /\ executed' \in {executed, Append(executed, "response")}]_vars

C5_Witness ==
    /\ LastExecuted = "orchestrator"
    /\ last_decision.decision = "complete"
    /\ HasIncompleteStep
    /\ node = "response"
    /\ \E i \in 1..Len(state.plan.steps) : state.plan.steps[i].completed

AllCommunication(rec) ==
    /\ rec.parsed = "object"
    /\ rec.decision = "modify"
    /\ rec.mods # <<>>
    /\ \A i \in 1..Len(rec.mods) : rec.mods[i] = "communication"

\* C6: a modify decision all of whose modifications are user-communication
\* texts gives the state a complete decision gives on the same input:
\* next_agent is response and the plan is not changed.
C6_CommunicationOnlyIsComplete ==
    [][(OrchestratorRan /\ AllCommunication(last_decision')) =>
          /\ state' = _tool_process_decision(state, Plan(state.plan),
                                             [decision |-> "complete"])
          /\ state'.next_agent = "response"
          /\ state'.plan = state.plan]_vars

C6_Witness ==
    /\ LastExecuted = "orchestrator"
    /\ AllCommunication(last_decision)
    /\ Len(last_decision.mods) = 2
    /\ HasIncompleteStep
    /\ state.next_agent = "response"

\* C7: whenever the LLM response cannot be read as a decision object, the
\* orchestrator invocation does not raise and yields the state a continue
\* decision yields: plan unchanged, routing by the next incomplete step.
C7_UnparsableIsContinue ==
    [][(OrchestratorInvoked /\ last_decision'.parsed \in {"failed", "nonobject"}) =>
          /\ status' = "running"
          /\ state' = _tool_process_decision(state, Plan(state.plan),
                                             [decision |-> "continue"])
          /\ state'.plan = state.plan]_vars

\* C8: the cursor stays within 0..len(steps) and never decreases.
C8_CursorMonotone ==
    /\ [](PlanPresent =>
            state.plan.current_step_index \in 0..Len(state.plan.steps))
    /\ [][(PlanPresent /\ PlanPresent') =>
            state'.plan.current_step_index >= state.plan.current_step_index]_vars

C8_Witness ==
    /\ PlanPresent
    /\ state.plan.current_step_index >= 2
    /\ Len(state.plan.steps) = 3
    /\ LastExecuted = "orchestrator"

\* C9: the completed steps, with their results, only ever grow at their
\* end: a completed step stays completed with its result, and a step that
\* becomes completed comes after every step completed before it.
C9_CompletedStepsStable ==
    [][(PlanPresent /\ PlanPresent') =>
          IsPrefix(CompletedSteps(state.plan), CompletedSteps(state'.plan))]_vars

C9_Witness ==
    /\ PlanPresent
    /\ Len(CompletedSteps(state.plan)) = 2
    /\ Len(state.plan.steps) = 3
    /\ state.plan.steps[2].action = "Search for X with different keywords"
    /\ state.plan.steps[1].result # state.plan.steps[2].result

\* C10: no plan before the plan-builder has run, a plan in every state
\* after it; the goal never changes and the number of steps never drops,
\* growing only in an orchestrator execution with a modify decision.
C10_PlanPersists ==
    /\ []((executed = <<>>) <=> ~PlanPresent)
    /\ [][PlanPresent =>
            /\ PlanPresent'
            /\ state'.plan.goal = state.plan.goal
            /\ Len(state'.plan.steps) >= Len(state.plan.steps)
            /\ Len(state'.plan.steps) > Len(state.plan.steps) =>
                  (OrchestratorRan /\ last_decision'.decision = "modify")]_vars

C10_Witness ==
    /\ PlanPresent
    /\ Len(state.plan.steps) = 3
    /\ last_decision.decision = "modify"
    /\ state.plan.steps[1].completed
    /\ ~state.plan.steps[2].completed
    /\ LastExecuted = "orchestrator"

(***************************************************************************)
(* The Plan data type on its own (models/agents.py)                        *)
(*                                                                         *)
(* PlanSpec applies the plan operations to every plan up to MaxPlanLen     *)
(* steps, whatever its completion flags and cursor: state.plan holds the   *)
(* plan, node the operation applied last and step the number of            *)
(* operations applied.                                                     *)
(***************************************************************************)
\* most operations applied to one plan
MaxPlanOps == 3

\* the values a step of a plan may have
PlanStepValues ==
    { [agent |-> "web_search", action |-> "Search for AI news",
       completed |-> FALSE, result |-> None],
      [agent |-> "web_search", action |-> "Search for AI news",
       completed |-> TRUE, result |-> "Summary of the news"],
      [agent |-> "threads", action |-> "Post the summary",
       completed |-> FALSE, result |-> None],
      [agent |-> "threads", action |-> "Post the summary",
       completed |-> TRUE, result |-> "Post created"],
      [agent |-> "threads", action |-> "Post the summary",
       completed |-> TRUE, result |-> None] }

\* every plan over these steps, the cursor anywhere up to one past the end
PlanValues ==
    { [goal |-> "Grow the audience", steps |-> ss, current_step_index |-> c] :
        ss \in SeqsUpTo(PlanStepValues, MaxPlanLen), c \in 0..(MaxPlanLen + 1) }

PlanInit ==
    /\ state \in { [create_initial_state(<<>>) EXCEPT !.plan = p] :
                     p \in { q \in PlanValues :
                               q.current_step_index <= Len(q.steps) + 1 } }
    /\ node = "Plan"
    /\ step = 0
    /\ status = "running"
    /\ executed = <<>>
    /\ exc = None
    /\ last_decision = NoDecision
    /\ calls = <<>>
    /\ NotStreaming
    /\ NotConcurrent

\* plan = Plan(**plan_data); plan.mark_current_step_completed(result);
\* plan.model_dump(), as the workers do
MarkCompleted ==
    /\ step < MaxPlanOps
    /\ \E result \in {"No action taken", None} :
          state' = [state EXCEPT !.plan =
                       model_dump(mark_current_step_completed(Plan(state.plan), result))]
    /\ node' = "mark_current_step_completed"
    /\ step' = step + 1
    /\ UNCHANGED <<status, executed, exc, last_decision, calls, stream_vars, conc_vars>>

\* plan = Plan(**plan_data); plan.model_dump(), as every node does
DumpAndReconstruct ==
    /\ step < MaxPlanOps
    /\ state' = [state EXCEPT !.plan = model_dump(Plan(state.plan))]
    /\ node' = "model_dump"
    /\ step' = step + 1
    /\ UNCHANGED <<status, executed, exc, last_decision, calls, stream_vars, conc_vars>>

\* plan.get_next_incomplete_step(), as the orchestrator routes by it
RouteNextIncomplete ==
    /\ step < MaxPlanOps
    /\ state' = RouteByPlan(state, Plan(state.plan))
    /\ node' = "get_next_incomplete_step"
    /\ step' = step + 1
    /\ UNCHANGED <<status, executed, exc, last_decision, calls, stream_vars, conc_vars>>

PlanNext ==
    \/ MarkCompleted
    \/ DumpAndReconstruct
    \/ RouteNextIncomplete

PlanSpec == PlanInit /\ [][PlanNext]_vars

\* the number of steps of the plan whose completed flag is set
CompletedCount(plan) == Cardinality({ i \in 1..Len(plan.steps) : plan.steps[i].completed })

\* C11: for every plan, the empty one included, is_complete() is true
\* exactly when every step has completed = true, and exactly when
\* get_next_incomplete_step() returns None; the step it returns otherwise is
\* the first one not completed.
C11_IsCompleteIffAllCompleted ==
    LET plan == Plan(state.plan) IN
    /\ is_complete(plan) <=> (CompletedCount(plan) = Len(plan.steps))
    /\ is_complete(plan) <=> (get_next_incomplete_step(plan) = NoneRec)
    /\ Len(plan.steps) = 0 => is_complete(plan)
    /\ node = "get_next_incomplete_step" =>
          ((state.next_agent = "response") <=> (CompletedCount(plan) = Len(plan.steps)))

C11_Witness ==
    /\ node = "get_next_incomplete_step"
    /\ Len(state.plan.steps) = 2
    /\ state.plan.steps[1].completed /\ state.plan.steps[2].completed
    /\ state.plan.current_step_index = 0
    /\ state.next_agent = "response"

\* this step applies mark_current_step_completed to the plan
MarkApplied == node' = "mark_current_step_completed" /\ step' = step + 1

\* C12: on a plan whose cursor is already past the last step
\* (current_step_index >= len(steps)) mark_current_step_completed raises
\* nothing and leaves steps, flags, results and cursor as they were, however
\* often it is called.
C12_MarkPastEndIsNoOp ==
    [][(MarkApplied /\ state.plan.current_step_index >= Len(state.plan.steps)) =>
          /\ state'.plan = state.plan
          /\ Plan(state'.plan) = Plan(state.plan)
          /\ status' = "running" /\ exc' = None]_vars

C12_Witness ==
    /\ node = "mark_current_step_completed"
    /\ step = MaxPlanOps
    /\ Len(state.plan.steps) = 2
    /\ state.plan.current_step_index = 2
    /\ ~state.plan.steps[1].completed
    /\ state.plan.steps[2].result = "Post created"

\* C33: with the cursor in range mark_current_step_completed(result) sets
\* completed and the result on the step at current_step_index and on no
\* other, moves the cursor on by exactly one, and leaves the goal, the
\* number and order of the steps and every other field as they were.
C33_MarkSetsStepAtCursor ==
    [][(MarkApplied /\ state.plan.current_step_index < Len(state.plan.steps)) =>
          LET c == state.plan.current_step_index + 1
              old == state.plan.steps
              new == state'.plan.steps
          IN /\ Len(new) = Len(old)
             /\ new[c].completed
             /\ new[c].result \in {"No action taken", None}
             /\ new[c].agent = old[c].agent /\ new[c].action = old[c].action
             /\ \A i \in 1..Len(old) : i # c => new[i] = old[i]
             /\ state'.plan.current_step_index = state.plan.current_step_index + 1
             /\ state'.plan.goal = state.plan.goal]_vars

C33_Witness ==
    /\ node = "mark_current_step_completed"
    /\ step = 1
    /\ Len(state.plan.steps) = 3
    /\ state.plan.current_step_index = 2
    /\ ~state.plan.steps[1].completed
    /\ state.plan.steps[2].completed
    /\ state.plan.steps[2].result = "No action taken"
    /\ ~state.plan.steps[3].completed

\* this step dumps and reconstructs the plan
DumpApplied == node' = "model_dump" /\ step' = step + 1

\* C13: a plan dumped to its dictionary form and reconstructed has the same
\* goal, the same steps (agent, action, completed, result) in the same order
\* and the same cursor; the dump/reconstruct a node performs leaves the plan
\* of the state as it was.
C13_RoundTrip ==
    /\ [](LET p == state.plan
              q == Plan(model_dump(state.plan))
          IN /\ q.goal = p.goal
             /\ q.current_step_index = p.current_step_index
             /\ Len(q.steps) = Len(p.steps)
             /\ \A i \in 1..Len(p.steps) :
                   /\ q.steps[i].agent = p.steps[i].agent
                   /\ q.steps[i].action = p.steps[i].action
                   /\ q.steps[i].completed = p.steps[i].completed
                   /\ q.steps[i].result = p.steps[i].result)
    /\ [][DumpApplied => state'.plan = state.plan]_vars

C13_Witness ==
    /\ node = "model_dump"
    /\ step = 1
    /\ Len(state.plan.steps) = 3
    /\ state.plan.current_step_index = 1
    /\ state.plan.steps[1].completed /\ state.plan.steps[1].result = "Summary of the news"
    /\ ~state.plan.steps[2].completed
    /\ state.plan.steps[3].completed /\ state.plan.steps[3].result = None

(***************************************************************************)
(* Properties of the plan-builder                                          *)
(***************************************************************************)
\* this step is a completed execution of the planning node
PlanningRan == executed' = Append(executed, "planning")

\* this step is an invocation of the plan-builder, completed or raising
PlanningInvoked ==
    /\ node = "planning" /\ status = "running"
    /\ (PlanningRan \/ status' = "failed")

\* the conversation holds a user message
HasUserMessage(messages) == \E i \in 1..Len(messages) : messages[i].role = "user"

\* the response holds no text between a first "{" and a last "}" that
\* decodes as JSON
Unparsable(response) == ~JsonLoads(BraceSlice(response)).ok

\* user messages: both kinds of keyword, one kind only, none
UserTexts == {"Find and share news", "Find news", "Share a post", "Hello there"}

\* no platform_action step comes before a web_search step
SearchBeforePost(steps) ==
    \A i, j \in 1..Len(steps) :
        (steps[i].agent = "threads" /\ steps[j].agent = "web_search") => j < i

\* C14: the fallback plan depends on the user message only: whatever the
\* unparsable response, the same user message gives the same steps; the
\* fallback has at least one step and its web_search step, if any, comes
\* before its platform_action step.  The plan-builder stores exactly this
\* plan when the response is unparsable.
C14_FallbackDeterministic ==
    /\ \A m \in UserTexts : \A r1, r2 \in PlannerResponses :
          /\ _create_fallback_plan(m, r1).steps = _create_fallback_plan(m, r2).steps
          /\ Len(_create_fallback_plan(m, r1).steps) >= 1
          /\ SearchBeforePost(_create_fallback_plan(m, r1).steps)
    /\ [][(PlanningRan /\ calls'[1].ok /\ Unparsable(calls'[1].content)) =>
            /\ \A r \in PlannerResponses :
                  state'.plan = model_dump(_create_fallback_plan(
                                               LastUserMessage(state.messages), r))
            /\ Len(state'.plan.steps) >= 1
            /\ SearchBeforePost(state'.plan.steps)]_vars

C14_Witness ==
    /\ executed = <<"planning">>
    /\ calls # <<>> /\ calls[1].ok /\ calls[1].content = <<BraceJunk>>
    /\ Len(state.plan.steps) = 2
    /\ state.plan.steps[1].agent = "web_search"
    /\ state.plan.steps[2].agent = "threads"

\* the response yields the plan JSON asked for: an object with goal and
\* steps, every step an object with agent and action
RequiredPlanJson(response) ==
    LET loaded == JsonLoads(BraceSlice(response)) IN
    /\ loaded.ok
    /\ {"goal", "steps"} \subseteq DOMAIN loaded.value.d
    /\ \A i \in 1..Len(loaded.value.d["steps"]) :
          /\ loaded.value.d["steps"][i].k = "object"
          /\ {"agent", "action"} \subseteq DOMAIN loaded.value.d["steps"][i].d

\* C15: whenever the planning LLM's response does not yield the required
\* plan JSON (malformed JSON, no JSON object, or a missing goal, steps,
\* agent or action), the plan-builder does not raise and stores the
\* keyword-based fallback plan built from the user message.
C15_FailureFallsBack ==
    [][(PlanningInvoked /\ calls' # <<>> /\ calls'[1].ok
          /\ ~RequiredPlanJson(calls'[1].content)) =>
          /\ status' = "running"
          /\ state'.plan = model_dump(_create_fallback_plan(
                               LastUserMessage(state.messages), calls'[1].content))]_vars

\* C16: the plan-builder raises PlanningError exactly when the conversation
\* holds no user message; with a user message, whatever the LLM call does,
\* the error that ends the node, if any, is not a PlanningError.
C16_PlanningErrorOnlyWithoutUser ==
    [][PlanningInvoked =>
          ((status' = "failed" /\ exc' = "PlanningError")
              <=> ~HasUserMessage(state.messages))]_vars

(***************************************************************************)
(* Properties of the conversation and of the result lists                  *)
(***************************************************************************)
\* this step is a completed execution of node n
NodeRan(n) == executed' = Append(executed, n)

\* C17: every node execution leaves the messages it was given as a prefix
\* of the messages it returns; plan-builder, web-research, platform-action
\* and response-synthesizer append exactly one assistant message, the
\* orchestrator appends none, and nothing else touches the messages.
C17_MessagesAppendOnly ==
    [][/\ IsPrefix(state.messages, state'.messages)
       /\ \A n \in {"planning", "web_search", "threads", "response"} :
             NodeRan(n) =>
                /\ Len(state'.messages) = Len(state.messages) + 1
                /\ state'.messages[Len(state'.messages)].role = "assistant"
       /\ NodeRan("orchestrator") => state'.messages = state.messages
       /\ executed' = executed => state'.messages = state.messages]_vars

C17_Witness ==
    /\ LastExecuted = "response"
    /\ Len(state.messages) = 7
    /\ state.messages[3] = Msg("user", "Hello there")
    /\ state.messages[4].content = "Plan created: Grow the audience"
    /\ state.messages[7].content = state.output
    /\ \A i \in 4..7 : state.messages[i].role = "assistant"

\* C18: the result lists only grow at their end: a web-research execution
\* leaves web_search_results as its previous contents followed by the new
\* raw hits, a platform-action execution leaves threads_results as its
\* previous contents followed by one new {action, result} record, and no
\* step removes or replaces an earlier entry.
C18_ResultListsAppendOnly ==
    [][/\ IsPrefix(state.web_search_results, state'.web_search_results)
       /\ IsPrefix(state.threads_results, state'.threads_results)
       /\ NodeRan("web_search") =>
             Len(state'.web_search_results)
                = Len(state.web_search_results) + calls'[2].hits
       /\ NodeRan("threads") =>
             state'.threads_results = Append(state.threads_results,
                 [action |-> state.current_action,
                  result |-> state'.messages[Len(state'.messages)].content])]_vars

(***************************************************************************)
(* Properties of the workers                                               *)
(***************************************************************************)
\* this step is an invocation of the platform-action worker in which the
\* LLM answered with its tool calls
ThreadsDecided ==
    /\ node = "threads" /\ status = "running"
    /\ (NodeRan("threads") \/ status' = "failed")
    /\ calls' # <<>> /\ calls'[1].ok

\* the text captured for one tool invocation of the log
CapturedOutput(call) ==
    IF call.ok THEN "Post created" ELSE "Error calling " \o call.name \o ": failed"

\* the captured texts joined by a blank line
RECURSIVE JoinedOutputs(_)
JoinedOutputs(cs) ==
    IF cs = <<>> THEN ""
    ELSE IF Len(cs) = 1 THEN CapturedOutput(cs[1])
    ELSE CapturedOutput(cs[1]) \o "\n\n" \o JoinedOutputs(Tail(cs))

\* C19: in one platform-action execution every tool invocation the LLM
\* asked for is executed once, in the order asked, whatever the outcome of
\* the earlier ones; a failed invocation puts its error text in the
\* aggregated result and raises nothing, so the worker completes its plan
\* step with as many captured outputs as invocations asked for.
C19_EveryToolCallExecuted ==
    [][ThreadsDecided =>
          LET invoked == Tail(calls')
              requested == calls'[1].requested
          IN /\ status' = "running" /\ NodeRan("threads")
             /\ Len(invoked) = Len(requested)
             /\ \A i \in 1..Len(invoked) :
                   invoked[i].to = "mcp" /\ invoked[i].name = requested[i]
             /\ invoked # <<>> =>
                   /\ state'.messages[Len(state'.messages)].content = JoinedOutputs(invoked)
                   /\ state'.plan.steps[state.plan.current_step_index + 1].completed
                   /\ state'.plan.steps[state.plan.current_step_index + 1].result
                         = JoinedOutputs(invoked)]_vars

C19_Witness ==
    /\ LastExecuted = "threads"
    /\ Len(calls) = 3
    /\ calls[1].requested = <<"delete_post", "create_post">>
    /\ ~calls[2].ok /\ calls[3].ok
    /\ state.plan.steps[state.plan.current_step_index].result
          = "Error calling delete_post: failed\n\nPost created"

\* this step is an invocation of the web-research worker whose search
\* returned no result
SearchFoundNothing ==
    /\ node = "web_search" /\ status = "running"
    /\ (NodeRan("web_search") \/ status' = "failed")
    /\ Len(calls') >= 2
    /\ calls'[2].to = "search" /\ calls'[2].ok /\ calls'[2].hits = 0

\* C20: when the search returns zero results the synthesis is exactly
\* "No relevant search results found for this query." and no LLM call is
\* made for it: the execution issues one LLM call, the query generation,
\* and the plan step is marked completed with that sentence as its result.
C20_NoResultsSkipsSynthesis ==
    [][SearchFoundNothing =>
          /\ status' = "running" /\ NodeRan("web_search")
          /\ Cardinality({ i \in 1..Len(calls') : calls'[i].to = "llm" }) = 1
          /\ calls'[1].to = "llm" /\ calls'[1].purpose = "query"
          /\ state'.messages[Len(state'.messages)]
                = Msg("assistant", "No relevant search results found for this query.")
          /\ state'.plan.steps[state.plan.current_step_index + 1].completed
          /\ state'.plan.steps[state.plan.current_step_index + 1].result
                = "No relevant search results found for this query."
          /\ state'.plan.current_step_index = state.plan.current_step_index + 1]_vars

C20_Witness ==
    /\ LastExecuted = "web_search"
    /\ Len(calls) = 2
    /\ calls[2].to = "search" /\ calls[2].hits = 0
    /\ state.plan.current_step_index = 2
    /\ state.plan.steps[2].result = "No relevant search results found for this query."
    /\ state.plan.steps[1].result = "Summary of the news"

(***************************************************************************)
(* Properties of the output and of failures                                *)
(***************************************************************************)
\* the response-synthesizer has completed an execution
ResponseExecuted == \E i \in 1..Len(executed) : executed[i] = "response"

\* C21: output is None in every state before the response-synthesizer has
\* executed; once it has completed, output is the reply the LLM generated
\* and that reply is the last message of the state, with role assistant.
C21_OutputSetByResponse ==
    /\ ~ResponseExecuted => state.output = None
    /\ ResponseExecuted =>
          /\ state.output = "Here is what was done"
          /\ state.messages[Len(state.messages)] = Msg("assistant", state.output)

C21_Witness ==
    /\ status = "done"
    /\ ResponseExecuted
    /\ state.output = "Here is what was done"
    /\ Len(state.threads_results) = 1
    /\ Len(state.messages) = 4

\* C22: the orchestrator invoked on a state with no plan raises
\* OrchestrationError before any LLM call is made and returns no new state.
C22_NoPlanRaisesBeforeLlm ==
    [][(node = "orchestrator" /\ status = "running" /\ state.plan = NoneRec) =>
          /\ status' = "failed"
          /\ exc' = "OrchestrationError"
          /\ calls' = <<>>
          /\ last_decision' = last_decision
          /\ state' = state
          /\ executed' = executed]_vars

C22_Witness ==
    /\ status = "failed"
    /\ exc = "OrchestrationError"
    /\ node = "orchestrator"
    /\ state.plan = NoneRec
    /\ calls = <<>>
    /\ state.messages # <<>>

\* the latest node execution logged an LLM or search call that failed
CallFailed(log) ==
    \E i \in 1..Len(log) : log[i].to \in {"llm", "search"} /\ ~log[i].ok

\* C23: a failure raised by a node (an LLM or search call that fails in any
\* node, a missing plan, a worker failure) ends the run: the node returns no
\* state and is not counted as executed, and after the failure nothing is
\* called again and no node executes.
C23_FailureEndsRun ==
    /\ [][status = "failed" => FALSE]_vars
    /\ [][(status = "running"
            /\ (CallFailed(calls') \/ (node = "orchestrator" /\ state.plan = NoneRec))) =>
            /\ status' = "failed"
            /\ exc' \in {"PlanningError", "OrchestrationError",
                         "LLMConnectionError", "AgentError"}
            /\ state' = state /\ node' = node /\ executed' = executed]_vars
    /\ [](status = "failed" <=>
            exc \in {"PlanningError", "OrchestrationError", "LLMConnectionError",
                     "AgentError", "AttributeError"})

C23_Witness ==
    /\ status = "failed"
    /\ exc = "LLMConnectionError"
    /\ node = "orchestrator"
    /\ Len(executed) = 3
    /\ CallFailed(calls)

(***************************************************************************)
(* Runs in which the orchestrator always continues                         *)
(*                                                                         *)
(* ContinueSpec is the run restricted to the behaviours in which no        *)
(* collaborator fails and every decision of the orchestrator is continue.  *)
(***************************************************************************)
\* the node of this step returned a state
Succeeds == status' = "running"

\* the decision read in this step is continue
Continues == last_decision'.parsed = "object" /\ last_decision'.decision = "continue"

PlanningSucceeds == PlanningNode /\ Succeeds

OrchestratorContinues == OrchestratorNode /\ Succeeds /\ Continues

WebSearchSucceeds == WebSearchNode /\ Succeeds

ThreadsSucceeds == ThreadsNode /\ Succeeds

ResponseSucceeds == ResponseNode /\ Succeeds

ContinueNext ==
    \/ StartNode
    \/ PlanningSucceeds
    \/ OrchestratorContinues
    \/ WebSearchSucceeds
    \/ ThreadsSucceeds
    \/ ResponseSucceeds
    \/ Finish
    \/ RecursionLimit

ContinueSpec == Init /\ [][ContinueNext]_vars

IsWorker(n) == n \in Workers

\* the worker executions of the run, in order
WorkersExecuted == SelectSeq(executed, IsWorker)

IsResponse(n) == n = "response"

\* agent and action of every step, in plan order
StepTexts(plan) ==
    [i \in 1..Len(plan.steps) |-> <<plan.steps[i].agent, plan.steps[i].action>>]

\* C28: when every decision is continue and nothing fails, the steps of the
\* plan made by the plan-builder are executed once each, in plan order, by
\* the worker their agent names, and then the response-synthesizer runs
\* once; a plan with one platform_action step gives one platform-action
\* execution, no web-research execution and a final state with output set.
C28_ContinueRunsPlanInOrder ==
    /\ [](PlanPresent =>
            /\ Len(WorkersExecuted) <= Len(state.plan.steps)
            /\ \A i \in 1..Len(state.plan.steps) :
                  IF i <= Len(WorkersExecuted)
                  THEN /\ WorkersExecuted[i] = state.plan.steps[i].agent
                       /\ state.plan.steps[i].completed
                  ELSE ~state.plan.steps[i].completed
            /\ (node \in {"response", END}) =>
                  Len(WorkersExecuted) = Len(state.plan.steps)
            /\ Len(SelectSeq(executed, IsResponse)) = (IF node = END THEN 1 ELSE 0)
            /\ status = "done" => (node = END /\ state.output # None))
    /\ [][PlanPresent => StepTexts(state'.plan) = StepTexts(state.plan)]_vars

C28_Witness ==
    /\ status = "done"
    /\ executed = <<"planning", "orchestrator", "threads", "orchestrator", "response">>
    /\ Len(state.plan.steps) = 1
    /\ state.plan.steps[1].agent = "threads"
    /\ state.output = "Here is what was done"

(***************************************************************************)
(* Plan modification by the orchestrator                                   *)
(***************************************************************************)
\* this step is a completed orchestrator execution that applied a modify
\* decision with at least one surviving proposal
ModifyApplied ==
    /\ OrchestratorRan
    /\ last_decision'.parsed = "object"
    /\ last_decision'.decision = "modify"
    /\ last_decision'.steps # <<>>

\* number of steps up to and including the last completed one
LastCompleted(steps) ==
    IF \E i \in 1..Len(steps) : steps[i].completed
    THEN CHOOSE i \in 1..Len(steps) :
            steps[i].completed /\ \A j \in 1..Len(steps) : steps[j].completed => j <= i
    ELSE 0

\* C29: a modify decision with surviving proposals inserts them as fresh
\* steps, contiguously and in the order proposed, right after the last
\* completed step (at the front when none is completed); the steps that
\* were there keep their order, completion flag and result, and
\* current_step_index is unchanged.
C29_ModifyInsertsAfterLastCompleted ==
    [][ModifyApplied =>
        LET old == state.plan.steps
            new == state'.plan.steps
            prop == last_decision'.steps
            k == LastCompleted(old)
            n == Len(prop)
        IN /\ Len(new) = Len(old) + n
           /\ \A i \in 1..k : new[i] = old[i]
           /\ \A j \in 1..n : new[k + j] = [agent |-> prop[j][1], action |-> prop[j][2],
                                            completed |-> FALSE, result |-> None]
           /\ \A i \in (k + 1)..Len(old) : new[i + n] = old[i]
           /\ state'.plan.current_step_index = state.plan.current_step_index
           /\ state'.plan.goal = state.plan.goal]_vars

C29_Witness ==
    /\ LastExecuted = "orchestrator"
    /\ last_decision.decision = "modify"
    /\ Len(last_decision.steps) = 2
    /\ last_decision.steps[1] # last_decision.steps[2]
    /\ Len(state.plan.steps) = 3
    /\ state.plan.steps[1].completed
    /\ state.plan.steps[2].agent = last_decision.steps[1][1]
    /\ state.plan.steps[2].action = last_decision.steps[1][2]
    /\ ~state.plan.steps[2].completed

\* C30: after a modify decision with surviving proposals next_agent and
\* current_action are those of the first surviving new step, and that step
\* is the first incomplete step of the plan, before every step that was
\* pending.
C30_ModifyRoutesToFirstNewStep ==
    [][ModifyApplied =>
        /\ state'.next_agent = last_decision'.steps[1][1]
        /\ state'.current_action = last_decision'.steps[1][2]
        /\ FirstIncomplete(state'.plan.steps) = LastCompleted(state.plan.steps) + 1
        /\ node' = last_decision'.steps[1][1]]_vars

C30_Witness ==
    /\ LastExecuted = "orchestrator"
    /\ last_decision.decision = "modify"
    /\ Len(last_decision.steps) = 1
    /\ Len(state.plan.steps) = 3
    /\ state.plan.steps[1].completed
    /\ ~state.plan.steps[3].completed
    /\ state.next_agent = "web_search"
    /\ state.plan.steps[2].agent = "web_search"
    /\ state.plan.steps[3].agent = "threads"
    /\ state.current_action = "Search for X with different keywords"

(***************************************************************************)
(* Streaming                                                               *)
(***************************************************************************)
\* the step run-to-completion takes from the same state with the same outcome
RunStep ==
    \/ /\ step <= RunConfig.recursion_limit
       /\ node = START
       /\ node' = "planning" /\ step' = step + 1
       /\ UNCHANGED <<state, executed, status>>
    \/ /\ step <= RunConfig.recursion_limit
       /\ executed' = Append(executed, node)
       /\ node' = NextNode(node, state') /\ step' = step + 1
       /\ UNCHANGED status
    \/ /\ step <= RunConfig.recursion_limit
       /\ status' = "failed"
       /\ UNCHANGED <<state, executed, node, step>>
    \/ /\ step <= RunConfig.recursion_limit
       /\ node = END /\ status' = "done"
       /\ UNCHANGED <<state, executed, node, step>>
    \/ /\ step > RunConfig.recursion_limit
       /\ status' = "aborted"
       /\ UNCHANGED <<state, executed, node, step>>

\* C24: stream yields one {node, state} event per node execution, in
\* execution order, carrying the state the node returned; the streamed
\* node names are the nodes executed, and every step of the streamed run
\* is the step run-to-completion takes on the same outcome.
C24_StreamYieldsOneEventPerExecution ==
    /\ [](mode = "stream" =>
            /\ Len(events) = Len(executed)
            /\ \A i \in 1..Len(events) : events[i].node = executed[i])
    /\ [][mode = "stream" =>
            /\ events' = IF executed' # executed
                         THEN Append(events, [node |-> node, state |-> state'])
                         ELSE events
            /\ RunStep]_vars

C24_Witness ==
    /\ mode = "stream"
    /\ status = "done"
    /\ Len(events) = 5
    /\ events[2].node = "orchestrator"
    /\ events[3].node = "web_search"
    /\ events[4].node = "orchestrator"
    /\ events[5].node = "response"
    /\ events[5].state = state
    /\ events[4].state # events[2].state

IsTerminal(e) == e.event \in {"done", "error"}

LastSse == sse[Len(sse)]

\* C25: the SSE stream of a chat request ends with exactly one terminal
\* event, which is done when the run completed normally and error carrying
\* the failure otherwise; nothing follows the terminal event, and every
\* stream eventually gets its terminal event.
C25_OneTerminalEvent ==
    /\ [](mode = "stream" =>
            /\ \A i \in 1..Len(sse) : IsTerminal(sse[i]) => i = Len(sse)
            /\ status = "running" => (sse = <<>> \/ ~IsTerminal(LastSse))
            /\ status = "done" => (sse # <<>> /\ LastSse = DoneEvent)
            /\ status \in {"failed", "aborted"} =>
                  (sse # <<>> /\ LastSse = [event |-> "error", data |-> exc]))
    /\ [][(mode = "stream" /\ sse # <<>> /\ IsTerminal(LastSse)) => sse' = sse]_vars
    /\ <>[](mode = "stream" => (sse # <<>> /\ IsTerminal(LastSse)))

C25_Witness ==
    /\ mode = "stream"
    /\ status = "failed"
    /\ Len(executed) = 3
    /\ executed[3] = "threads"
    /\ Len(sse) >= 6
    /\ LastSse = [event |-> "error", data |-> "LLMConnectionError"]
    /\ \E i \in 1..Len(sse) : sse[i].event = "tool_call"

(***************************************************************************)
(* Concurrent runs                                                         *)
(*                                                                         *)
(* Two runs started on one WorkflowRunner share its agents.  A coroutine   *)
(* runs without interruption up to its next await of an external call, so  *)
(* each action below is one such stretch of one run.  The state dict of a  *)
(* run refers to its threads_results list, which ThreadsAgent.invoke       *)
(* appends to in place: the lists live in heap and the state holds the     *)
(* address.  alone[r] is run r executed alone on the same outcomes.        *)
(***************************************************************************)
Runs == {1, 2}

\* the messages of each request
RunMessages(r) ==
    IF r = 1 THEN <<Msg("user", "Find and share news")>>
    ELSE <<Msg("user", "Find news"), Msg("assistant", "Hello there"),
           Msg("user", "Hello there")>>

\* one list object serving as threads_results of every state
SharedList(r) == 1

\* threads_results=[] : the list object made by the r-th call
FreshList(r) == r

\* create_initial_state(messages), the result list given by its address
NewRun(r) ==
    [state |-> [create_initial_state(RunMessages(r)) EXCEPT
                    !.threads_results = FreshList(r)],
     node |-> START, step |-> 0, status |-> "running", executed |-> <<>>,
     exc |-> None, pc |-> "node"]

AloneRun(r) ==
    [state |-> create_initial_state(RunMessages(r)),
     node |-> START, step |-> 0, status |-> "running", executed |-> <<>>,
     exc |-> None]

\* the state as the run's nodes read it
Deref(run) == [run.state EXCEPT !.threads_results = heap[run.state.threads_results]]

\* the graph's step on the outcome of node n, as a function of the run
Advance(run, n, result) ==
    IF result.raised # None
    THEN [run EXCEPT !.status = "failed", !.exc = result.raised]
    ELSE [run EXCEPT !.state = result.state,
                     !.node = NextNode(n, result.state),
                     !.step = @ + 1,
                     !.executed = Append(@, n)]

\* the same, the returned state still referring to the run's list object
AdvanceRef(run, n, result) ==
    IF result.raised # None
    THEN [Advance(run, n, result) EXCEPT !.pc = "node"]
    ELSE [Advance(run, n, result) EXCEPT
              !.state.threads_results = run.state.threads_results,
              !.pc = "node"]

ConcRunning(r, n) ==
    /\ runs[r].status = "running"
    /\ runs[r].node = n
    /\ runs[r].pc = "node"
    /\ ~OutOfSteps(runs[r].step)

ConcStep(r, n, result, resultAlone) ==
    /\ runs' = [runs EXCEPT ![r] = AdvanceRef(runs[r], n, result)]
    /\ alone' = [alone EXCEPT ![r] = Advance(alone[r], n, resultAlone)]

\* outcomes of the external calls of a concurrent run
ConcPlannerOutcomes ==
    { LlmOk(<<JsonObject([goal |-> "Grow the audience", steps |-> ss])>>) :
        ss \in { <<[k |-> "object", d |-> [agent |-> "threads", action |-> "Post the summary"]]>>,
                 <<[k |-> "object", d |-> [agent |-> "web_search", action |-> "Search for AI news"]],
                   [k |-> "object", d |-> [agent |-> "threads", action |-> "Post the summary"]]>> } }
    \cup {LlmFailure}

ConcOrchestratorOutcomes ==
    { LlmOk(<<JsonObject([decision |-> "continue", modifications |-> <<>>])>>),
      LlmOk(<<JsonObject([decision |-> "complete", modifications |-> <<>>])>>),
      LlmFailure }

ConcDecideOutcomes ==
    { [ok |-> TRUE, content |-> "", tool_calls |-> <<>>],
      [ok |-> TRUE, content |-> "", tool_calls |-> <<ToolCallOk>>] }

\* tool lists the remote service may answer with
RemoteToolLists == {"tools_v1", "tools_v2"}

ConcStart(r) ==
    /\ ConcRunning(r, START)
    /\ runs' = [runs EXCEPT ![r].node = NextNode(START, Deref(runs[r])),
                            ![r].step = @ + 1]
    /\ alone' = [alone EXCEPT ![r].node = NextNode(START, alone[r].state),
                              ![r].step = @ + 1]
    /\ UNCHANGED <<threads_agent, heap, run_vars>>

ConcPlanning(r) ==
    /\ ConcRunning(r, "planning")
    /\ \E llm \in ConcPlannerOutcomes :
          ConcStep(r, "planning", PlanningInvoke(Deref(runs[r]), llm),
                   PlanningInvoke(alone[r].state, llm))
    /\ UNCHANGED <<threads_agent, heap, run_vars>>

ConcOrchestrator(r) ==
    /\ ConcRunning(r, "orchestrator")
    /\ \E llm \in ConcOrchestratorOutcomes :
          ConcStep(r, "orchestrator", OrchestratorInvoke(Deref(runs[r]), llm),
                   OrchestratorInvoke(alone[r].state, llm))
    /\ UNCHANGED <<threads_agent, heap, run_vars>>

ConcWebSearch(r) ==
    /\ ConcRunning(r, "web_search")
    /\ \E hits \in { h \in SearchOutcomes : h.ok } :
          ConcStep(r, "web_search",
                   WebSearchInvoke(Deref(runs[r]), LlmOk("AI news today"), hits,
                                   LlmOk("Summary of the news")),
                   WebSearchInvoke(alone[r].state, LlmOk("AI news today"), hits,
                                   LlmOk("Summary of the news")))
    /\ UNCHANGED <<threads_agent, heap, run_vars>>

\* _tool_load_mcp_tools and list_tools up to the first await
ConcThreadsLoad(r) ==
    /\ ConcRunning(r, "threads")
    /\ IF threads_agent._tools_loaded
       THEN /\ runs' = [runs EXCEPT ![r].pc = "deciding"]
            /\ UNCHANGED <<threads_agent, run_vars>>
       ELSE IF threads_agent._tools # None
       THEN /\ runs' = [runs EXCEPT ![r].pc = "deciding"]
            /\ threads_agent' = [threads_agent EXCEPT !._tools_loaded = TRUE]
       ELSE /\ runs' = [runs EXCEPT ![r].pc = "fetching"]
            /\ threads_agent' = [threads_agent EXCEPT !.fetches = @ + 1]
    /\ UNCHANGED <<heap, alone, run_vars>>

\* tools = await self._client.list_tools() returns or raises
ConcThreadsFetched(r) ==
    /\ runs[r].status = "running"
    /\ runs[r].pc = "fetching"
    /\ \E ok \in BOOLEAN, tools \in RemoteToolLists :
          IF ok
          THEN /\ threads_agent' = [threads_agent EXCEPT !._tools = tools]
               /\ runs' = [runs EXCEPT ![r].pc = "closing"]
               /\ UNCHANGED alone
          ELSE /\ ConcStep(r, "threads",
                           ThreadsInvoke(Deref(runs[r]), FALSE, NoneRec),
                           ThreadsInvoke(alone[r].state, FALSE, NoneRec))
               /\ UNCHANGED <<threads_agent, run_vars>>
    /\ UNCHANGED <<heap, run_vars>>

\* the async with block is left and list_tools returns to the agent
ConcThreadsLoaded(r) ==
    /\ runs[r].status = "running"
    /\ runs[r].pc = "closing"
    /\ threads_agent' = [threads_agent EXCEPT !._tools_loaded = TRUE]
    /\ runs' = [runs EXCEPT ![r].pc = "deciding"]
    /\ UNCHANGED <<heap, alone, run_vars>>

\* the rest of ThreadsAgent.invoke, from the answer of the deciding LLM
ConcThreadsDecided(r) ==
    /\ runs[r].status = "running"
    /\ runs[r].pc = "deciding"
    /\ \E decided \in ConcDecideOutcomes :
          LET result == ThreadsInvoke(Deref(runs[r]), TRUE, decided) IN
          /\ ConcStep(r, "threads", result,
                      ThreadsInvoke(alone[r].state, TRUE, decided))
          /\ heap' = IF result.raised # None THEN heap
                     ELSE [heap EXCEPT ![runs[r].state.threads_results] =
                                           result.state.threads_results]
    /\ UNCHANGED <<threads_agent, run_vars>>

ConcResponse(r) ==
    /\ ConcRunning(r, "response")
    /\ ConcStep(r, "response",
                ResponseInvoke(Deref(runs[r]), LlmOk("Here is what was done")),
                ResponseInvoke(alone[r].state, LlmOk("Here is what was done")))
    /\ UNCHANGED <<threads_agent, heap, run_vars>>

ConcFinish(r) ==
    /\ ConcRunning(r, END)
    /\ runs' = [runs EXCEPT ![r].status = "done"]
    /\ alone' = [alone EXCEPT ![r].status = "done"]
    /\ UNCHANGED <<threads_agent, heap, run_vars>>

ConcRecursionLimit(r) ==
    /\ runs[r].status = "running"
    /\ runs[r].pc = "node"
    /\ OutOfSteps(runs[r].step)
    /\ runs' = [runs EXCEPT ![r].status = "aborted", ![r].exc = "GraphRecursionError"]
    /\ alone' = [alone EXCEPT ![r].status = "aborted", ![r].exc = "GraphRecursionError"]
    /\ UNCHANGED <<threads_agent, heap, run_vars>>

ConcInit ==
    /\ state = create_initial_state(<<>>)
    /\ node = "concurrent"
    /\ step = 0
    /\ status = "running"
    /\ executed = <<>>
    /\ exc = None
    /\ last_decision = NoDecision
    /\ calls = <<>>
    /\ NotStreaming
    /\ runs = [r \in Runs |-> NewRun(r)]
    /\ threads_agent = [_tools_loaded |-> FALSE, _tools |-> None, fetches |-> 0]
    /\ heap = [a \in { NewRun(r).state.threads_results : r \in Runs } |-> <<>>]
    /\ alone = [r \in Runs |-> AloneRun(r)]

ConcNext ==
    \E r \in Runs :
       \/ ConcStart(r)
       \/ ConcPlanning(r)
       \/ ConcOrchestrator(r)
       \/ ConcWebSearch(r)
       \/ ConcThreadsLoad(r)
       \/ ConcThreadsFetched(r)
       \/ ConcThreadsLoaded(r)
       \/ ConcThreadsDecided(r)
       \/ ConcResponse(r)
       \/ ConcFinish(r)
       \/ ConcRecursionLimit(r)

ConcSpec == ConcInit /\ [][ConcNext]_vars

\* C26: the remote tool list is fetched at most once for one ThreadsAgent
\* under every interleaving of the runs sharing it, and the cached list,
\* once set, is never changed.
C26_ToolListFetchedOnce ==
    /\ [](threads_agent.fetches <= 1)
    /\ [][threads_agent._tools # None =>
             threads_agent'._tools = threads_agent._tools]_vars

\* what run r holds, its result list read through the heap
View(r) ==
    [state |-> Deref(runs[r]), node |-> runs[r].node, step |-> runs[r].step,
     status |-> runs[r].status, executed |-> runs[r].executed, exc |-> runs[r].exc]

\* C27: under every interleaving of two runs sharing the runner and its
\* agents, each run's state and plan are what the run executed alone on the
\* same outcomes has, and a step of one run leaves what the other run holds
\* unchanged.
C27_RunsIndependent ==
    /\ [](\A r \in Runs : View(r) = alone[r])
    /\ [][\A r \in Runs : runs'[r] # runs[r] =>
             \A q \in Runs \ {r} : View(q)' = View(q)]_vars

C27_Witness ==
    /\ runs[1].status = "done"
    /\ Len(heap[runs[1].state.threads_results]) = 1
    /\ runs[2].pc = "deciding"
    /\ runs[2].executed = <<"planning", "orchestrator", "web_search", "orchestrator">>
    /\ heap[runs[2].state.threads_results] = <<>>
    /\ runs[1].state.threads_results # runs[2].state.threads_results

(***************************************************************************)
(* What the orchestrator leaves alone                                      *)
(***************************************************************************)
\* new is old with n fresh steps put in after position k
InsertedInto(old, new, k) ==
    LET n == Len(new) - Len(old) IN
    /\ n >= 0
    /\ \A i \in 1..k : new[i] = old[i]
    /\ \A j \in 1..n : ~new[k + j].completed /\ new[k + j].result = None
    /\ \A i \in (k + 1)..Len(old) : new[i + n] = old[i]

\* C31: an orchestrator execution whose decision is continue or anything
\* but modify and complete (an unreadable response included) returns the
\* plan it was given; under every decision the steps that were there keep
\* their completion flag and result and current_step_index is unchanged.
C31_ContinueLeavesPlan ==
    [][OrchestratorRan =>
        /\ last_decision'.decision \notin {"modify", "complete"} =>
              state'.plan = state.plan
        /\ state'.plan.current_step_index = state.plan.current_step_index
        /\ state'.plan.goal = state.plan.goal
        /\ InsertedInto(state.plan.steps, state'.plan.steps,
                        LastCompleted(state.plan.steps))]_vars

C31_Witness ==
    /\ LastExecuted = "orchestrator"
    /\ Len(executed) = 4
    /\ last_decision.decision = "retry"
    /\ Len(state.plan.steps) = 2
    /\ state.plan.steps[1].completed
    /\ state.plan.steps[1].result # None
    /\ ~state.plan.steps[2].completed
    /\ state.plan.current_step_index = 1

\* the decision read in this step ends the loop: complete, or a modify whose
\* proposals were all dropped
EndsLoop(rec) ==
    \/ rec.decision = "complete"
    \/ rec.decision = "modify" /\ rec.mods # <<>> /\ rec.steps = <<>>

\* C32: after a decision that does not end the loop the orchestrator routes
\* by scan order: to the agent of the first step with completed = false,
\* with current_action that step's action; when no step is incomplete
\* next_agent is response and current_action is left as it was.
C32_RoutesToFirstIncomplete ==
    [][(OrchestratorRan /\ ~EndsLoop(last_decision')) =>
        LET steps == state'.plan.steps
            i == FirstIncomplete(steps)
        IN IF i # 0
           THEN /\ state'.next_agent = steps[i].agent
                /\ state'.current_action = steps[i].action
                /\ \A j \in 1..(i - 1) : steps[j].completed
           ELSE /\ state'.next_agent = "response"
                /\ state'.current_action = state.current_action]_vars

C32_Witness ==
    /\ LastExecuted = "orchestrator"
    /\ Len(executed) = 4
    /\ last_decision.decision = "continue"
    /\ Len(state.plan.steps) = 2
    /\ state.plan.steps[1].completed
    /\ state.plan.steps[1].agent = "web_search"
    /\ ~state.plan.steps[2].completed
    /\ state.next_agent = "threads"
    /\ state.current_action = "Post the summary"

(***************************************************************************)
(* Agents of the plan steps                                                *)
(***************************************************************************)
\* the agent a step declared as d gets from the plan-builder
Coerced(d) == IF d \in Workers THEN d ELSE "threads"

\* C34: every step of every plan has agent web_search or threads: the
\* plan-builder turns any other declared agent, or a missing one, into
\* threads, keeping the step, and the orchestrator inserts only the
\* proposals naming one of the two, dropping the others.
C34_StepAgentsInRange ==
    /\ [](PlanPresent =>
            \A i \in 1..Len(state.plan.steps) : state.plan.steps[i].agent \in Workers)
    /\ [][(PlanningRan /\ calls'[1].ok /\ ~Unparsable(calls'[1].content)) =>
            LET items == Get(JsonLoads(BraceSlice(calls'[1].content)).value.d,
                             "steps", <<>>)
            IN /\ Len(state'.plan.steps) = Len(items)
               /\ \A i \in 1..Len(items) :
                     state'.plan.steps[i].agent =
                         Coerced(Get(items[i].d, "agent", None))]_vars
    /\ [][OrchestratorRan =>
            Len(state'.plan.steps) =
                Len(state.plan.steps)
                + (IF last_decision'.decision = "modify"
                   THEN Cardinality({ i \in 1..Len(last_decision'.mods) :
                                        last_decision'.mods[i] = "step" })
                   ELSE 0)]_vars

C34_Witness ==
    /\ LastExecuted = "planning"
    /\ calls = <<PlanCall(LlmOk(<<JsonObject(
                    [goal |-> "Grow the audience",
                     steps |-> <<[k |-> "object",
                                  d |-> [agent |-> "email", action |-> "Post the summary"]],
                                 [k |-> "object",
                                  d |-> [agent |-> "web_search", action |-> "Search for AI news"]]>>])>>))>>
    /\ Len(state.plan.steps) = 2
    /\ state.plan.steps[1].agent = "threads"
    /\ state.plan.steps[2].agent = "web_search"

(***************************************************************************)
(* Cursor and completion flags                                             *)
(***************************************************************************)
\* C35: in every state of a run the completed steps are a prefix of the
\* plan and current_step_index is their number, so the step at the cursor
\* (get_current_step) is the first incomplete step (get_next_incomplete_step),
\* also after modify insertions.
C35_CursorIsFirstIncomplete ==
    PlanPresent =>
        LET plan == Plan(state.plan) IN
        /\ \A i \in 1..Len(plan.steps) :
              plan.steps[i].completed <=> i <= plan.current_step_index
        /\ plan.current_step_index = CompletedCount(plan)
        /\ plan.current_step_index <= Len(plan.steps)
        /\ get_current_step(plan) = get_next_incomplete_step(plan)

C35_Witness ==
    /\ LastExecuted = "orchestrator"
    /\ last_decision.decision = "modify"
    /\ Len(last_decision.steps) = 1
    /\ Len(state.plan.steps) = 3
    /\ state.plan.current_step_index = 1
    /\ state.plan.steps[1].completed
    /\ state.plan.steps[2].action = "Search for X with different keywords"
    /\ get_current_step(Plan(state.plan)) = state.plan.steps[2]

(***************************************************************************)
(* The step a worker completes                                             *)
(***************************************************************************)
\* this step is a completed execution of a worker node
WorkerRan == node \in Workers /\ executed' = Append(executed, node)

\* the steps that go from incomplete to completed in this step
NewlyCompleted ==
    { i \in 1..Len(state.plan.steps) :
        /\ i <= Len(state'.plan.steps)
        /\ ~state.plan.steps[i].completed
        /\ state'.plan.steps[i].completed }

\* C36: a worker execution marks completed the step the orchestrator just
\* routed to: exactly one step goes from incomplete to completed, its agent
\* is the executing worker and its action is state.current_action.
C36_WorkerCompletesRoutedStep ==
    [][WorkerRan =>
        /\ Len(state'.plan.steps) = Len(state.plan.steps)
        /\ Cardinality(NewlyCompleted) = 1
        /\ \A i \in NewlyCompleted :
              /\ state.plan.steps[i].agent = node
              /\ state.plan.steps[i].action = state.current_action
              /\ state.next_agent = node
              /\ i = FirstIncomplete(state.plan.steps)
        /\ \A i \in 1..Len(state.plan.steps) :
              i \notin NewlyCompleted =>
                 state'.plan.steps[i] = state.plan.steps[i]]_vars

C36_Witness ==
    /\ LastExecuted = "threads"
    /\ Len(executed) = 5
    /\ executed[3] = "web_search"
    /\ Len(state.plan.steps) = 2
    /\ state.plan.steps[2].completed
    /\ state.plan.steps[2].agent = "threads"
    /\ state.plan.steps[2].action = state.current_action
    /\ state.current_action = "Post the summary"

(***************************************************************************)
(* Modify decisions of which nothing survives                              *)
(***************************************************************************)
\* C37: a modify decision with a non-empty modifications list of which no
\* entry survives, for whatever reason each was dropped (user-communication
\* text, an agent outside web_search and threads, an empty or missing
\* action), routes to response and leaves the plan as it was, even with
\* incomplete steps left.
C37_NothingSurvivesEndsLoop ==
    [][(OrchestratorRan /\ last_decision'.decision = "modify"
          /\ last_decision'.mods # <<>> /\ last_decision'.steps = <<>>) =>
          /\ state'.next_agent = "response"
          /\ node' = "response"
          /\ state'.plan = state.plan
          /\ state'.current_action = state.current_action]_vars

C37_Witness ==
    /\ LastExecuted = "orchestrator"
    /\ node = "response"
    /\ last_decision.decision = "modify"
    /\ last_decision.mods = <<"bad_agent", "communication", "no_action">>
    /\ Len(state.plan.steps) = 2
    /\ state.plan.steps[1].completed
    /\ ~state.plan.steps[2].completed

(***************************************************************************)
(* The state a node was given                                              *)
(***************************************************************************)
\* the state run r handed to its node, read before and after this step
InputBefore(r) ==
    [runs[r].state EXCEPT !.threads_results = heap[runs[r].state.threads_results]]

InputAfter(r) ==
    [runs[r].state EXCEPT !.threads_results = heap'[runs[r].state.threads_results]]

\* C38: no node invocation modifies the state it was given: its messages,
\* plan, web_search_results and threads_results read the same after the
\* call as before, whether the call returns or raises.
C38_InputStateUnchanged ==
    [][\A r \in Runs : InputAfter(r) = InputBefore(r)]_vars

(***************************************************************************)
(* The user's request                                                      *)
(***************************************************************************)
\* C39: within a run every agent treats the same message as the user's
\* request: the message the plan-builder plans from is the one the
\* orchestrator, the workers and the response-synthesizer use, also for a
\* conversation with several user messages.
C39_SameUserRequest ==
    [][\A n \in {"orchestrator", "web_search", "threads", "response"} :
          (node = n /\ executed' = Append(executed, n)) =>
              user_request(n, state) = user_request("planning", state)]_vars

(***************************************************************************)
(* tool_call events                                                        *)
(***************************************************************************)
IsToolCall(e) == e.event = "tool_call"

\* C40: in the event stream of one chat request every platform-action
\* result record is emitted as a tool_call event exactly once, by the
\* platform-action execution that produced it: there are as many tool_call
\* events as records, and an execution emits only the record it added.
C40_ToolCallEmittedOnce ==
    /\ [](mode = "stream" =>
            Len(SelectSeq(sse, IsToolCall)) = Len(state.threads_results))
    /\ [][(mode = "stream" /\ node = "threads"
             /\ executed' = Append(executed, "threads")) =>
            SelectSeq(sse', IsToolCall) =
                Append(SelectSeq(sse, IsToolCall),
                       ToolCallEvent(state'.threads_results[Len(state'.threads_results)]))]_vars

====
